---- MODULE Spec2Model ----
(***************************************************************************)
(* Mercury Context Evolution: the session tracker, the heat-map store and  *)
(* the loading planner of src/src/evolution-api.ts.                        *)
(*                                                                         *)
(* A tool call is an async method of MercuryEvolutionAPI.  It runs         *)
(* synchronously up to its first await and is resumed once per completed   *)
(* file-system operation, so each call is modelled as a small process      *)
(* whose steps are the code between two awaits.  Several calls may be in   *)
(* flight at once (Spec); SpecSeq runs them one after another.             *)
(*                                                                         *)
(* Heat values are counted in tenths (0.1 = 1, 1.0 = 10).  Of the          *)
(* timestamps only lastMaintenance is modelled: the tracker's clock reads  *)
(* Now, the round trip of the document reads any of Clock.  Identifiers    *)
(* made by generateId are fresh numbers drawn from a counter.              *)
(***************************************************************************)
EXTENDS Integers, Sequences, FiniteSets, TLC

VARIABLES
    currentSession,   \* this.currentSession: a session id, or NoSession
    heap,             \* the Session objects still referenced, by id
    sessionDocs,      \* sessions/<id>.json of those sessions, by id
    disk,             \* evolution/heat-map.json
    calls,            \* the tool calls in flight, by slot
    nextId,           \* generateId: the next fresh identifier
    started,          \* number of sessions startTracking has made
    failures,         \* number of file writes that have failed
    outcome,          \* what the call that ended in the last step returned or threw
    ended,            \* history: the sessions an endTracking that returned was for
    discarded,        \* history: the sessions startTracking replaced while Active
    overlap,          \* history: number of calls begun while another was in flight
    stepped,          \* history: the resources a recordStep that returned recorded
    appended,         \* history: number of completed appendPath cycles
    upserts,          \* history: each upsertNode call and the heat it left
    script,           \* history: the last startTracking and the steps since
    planIn,           \* the planner's input: ranked paths and maxTokens
    planOut,          \* the planner's output: ranks selected, and the plan
    query,            \* the last read-only request: its operation and arguments
    answer            \* what that request returned

vars == <<currentSession, heap, sessionDocs, disk, calls, nextId, started, failures,
          outcome, ended, discarded,
          overlap, stepped, appended, upserts, script, planIn, planOut,
          query, answer>>

\* the variables of the read-only operations
readVars == <<query, answer>>

----------------------------------------------------------------------------
(* Bounds of the model *)

MaxInFlight == 2
MaxOverlaps == 1
MaxSessions == 2
MaxFailures == 1
MaxSteps == 2
MaxAppends == 1005
MaxUpserts == 4
MaxRanked == 3
MaxPieces == 3
MaxRequestPieces == 2
MaxStored == 3

(* Program constants *)

HeatOne == 10
DefaultIncrement == 1
InitialPathHeat == 10
InitialAccessCount == 1
PathCapacity == 1000
TokensPerStep == 500
BreakTenths == 8

NoSession == 0
NoSessionError == "No active tracking session"
StorageError == "write failed"
TypeError == "TypeError: Cannot read properties of null"

Resources == {"a", "b"}
Intents == {<<"f", "i", "x", " ", "b", "u", "g">>}
Types == {"note"}
Successes == {9}
Calls == 1..MaxInFlight

Min(x, y) == IF x <= y THEN x ELSE y

----------------------------------------------------------------------------
(* The heat-map document *)

\* Date.now() when the tracker loads the document
Now == 1
\* version: '1.0.0'
InitialVersion == "1.0.0"

\* loadHeatMap's catch block: the heat map returned when none can be read
EmptyHeatMapAt(now) ==
    [paths |-> <<>>, nodes |-> <<>>, edges |-> <<>>, intents |-> <<>>,
     lastMaintenance |-> now, version |-> InitialVersion]

EmptyHeatMap == EmptyHeatMapAt(Now)

\* A file is missing, unparseable (cut short by a write in progress, or the
\* overlay of two writes), or holds the JSON text of a value.
MissingFile == [state |-> "missing", content |-> EmptyHeatMap]
UnparseableFile == [state |-> "unparseable", content |-> EmptyHeatMap]
JsonFile(value) == [state |-> "json", content |-> value]

LoadHeatMapNoVersion(doc, now) ==
    IF doc.state /= "json" THEN [EmptyHeatMapAt(now) EXCEPT !.version = ""]
    ELSE doc.content

\* loadHeatMap at clock reading now: readFile or JSON.parse throwing gives the
\* empty heat map; in a document read, x || d puts d in the place of 0 and ''
LoadHeatMapAt(doc, now) ==
    IF doc.state /= "json" THEN EmptyHeatMapAt(now)
    ELSE [paths |-> doc.content.paths, nodes |-> doc.content.nodes,
          edges |-> doc.content.edges, intents |-> doc.content.intents,
          lastMaintenance |-> IF doc.content.lastMaintenance = 0 THEN now
                              ELSE doc.content.lastMaintenance,
          version |-> IF doc.content.version = "" THEN InitialVersion
                      ELSE doc.content.version]

\* loadHeatMap as the tracker calls it
LoadHeatMap(doc) == LoadHeatMapAt(doc, Now)

\* findIndex: the first index whose key is k, 0 when there is none
FindIndex(entries, k) ==
    IF \E i \in 1..Len(entries) : entries[i].key = k
    THEN CHOOSE i \in 1..Len(entries) :
            /\ entries[i].key = k
            /\ \A j \in 1..(i - 1) : entries[j].key /= k
    ELSE 0

UpdateNodeHeatAlwaysPush(hm, nodePath, increment) ==
    [hm EXCEPT !.nodes = Append(@, [key |-> nodePath, heat |-> increment,
                                    accessCount |-> 1])]

UpdateNodeHeatDropsOthers(hm, nodePath, increment) ==
    LET i == FindIndex(hm.nodes, nodePath) IN
    IF i > 0
    THEN [hm EXCEPT !.nodes[i].heat = Min(HeatOne, @ + increment),
                    !.nodes[i].accessCount = @ + 1]
    ELSE [hm EXCEPT !.nodes = <<[key |-> nodePath, heat |-> increment,
                                 accessCount |-> 1]>>]

\* updateNodeHeat between its load and its save
UpdateNodeHeat(hm, nodePath, increment) ==
    LET i == FindIndex(hm.nodes, nodePath) IN
    IF i > 0
    THEN [hm EXCEPT !.nodes[i].heat = Min(HeatOne, @ + increment),
                    !.nodes[i].accessCount = @ + 1]
    ELSE [hm EXCEPT !.nodes = Append(@, [key |-> nodePath, heat |-> increment,
                                         accessCount |-> 1])]

\* updateEdgeHeat between its load and its save
UpdateEdgeHeat(hm, from, to, increment) ==
    LET edgeKey == <<from, to>>
        i == FindIndex(hm.edges, edgeKey) IN
    IF i > 0
    THEN [hm EXCEPT !.edges[i].heat = Min(HeatOne, @ + increment),
                    !.edges[i].traversalCount = @ + 1]
    ELSE [hm EXCEPT !.edges = Append(@, [key |-> edgeKey, from |-> from, to |-> to,
                                         heat |-> increment, traversalCount |-> 1])]

SavePathNoEvict(hm, pathData) ==
    [hm EXCEPT !.paths = Append(@, pathData)]

\* savePath between its load and its save
SavePath(hm, pathData) ==
    LET pushed == Append(hm.paths, pathData) IN
    [hm EXCEPT !.paths = IF Len(pushed) > PathCapacity
                         THEN SubSeq(pushed, Len(pushed) - PathCapacity + 1, Len(pushed))
                         ELSE pushed]

----------------------------------------------------------------------------
(* Sessions and calls *)

NewSessionWithStep(id, intent) ==
    [id |-> id, intent |-> intent, paths |-> <<"a">>,
     interactions |-> <<[type |-> "note", path |-> "a"]>>]

\* startTracking's new Session object
NewSession(id, intent) ==
    [id |-> id, intent |-> intent, paths |-> <<>>, interactions |-> <<>>]

EmptySession == NewSession(NoSession, <<>>)

NoFile == [state |-> "missing", content |-> EmptySession]

\* JSON.stringify(this.currentSession) in saveSession
StringifySession(cur, hp) ==
    IF cur = NoSession THEN [state |-> "null", content |-> EmptySession]
    ELSE [state |-> "json", content |-> hp[cur]]

NoPathData ==
    [id |-> NoSession, sessionRef |-> NoSession, intent |-> <<>>, success |-> 0,
     sessionId |-> NoSession, interactionCount |-> 0]

\* endTracking's pathData; its sequence is the session's own paths array
PathData(id, cur, hp, success) ==
    [id |-> id, sessionRef |-> cur, intent |-> hp[cur].intent, success |-> success,
     sessionId |-> hp[cur].id, interactionCount |-> Len(hp[cur].interactions)]

StringifyPathColdStart(pd, hp) ==
    [id |-> pd.id, sequence |-> hp[pd.sessionRef].paths, intent |-> pd.intent,
     success |-> pd.success, heat |-> 0, accessCount |-> 0,
     sessionId |-> pd.sessionId, interactionCount |-> pd.interactionCount]

\* pathData as JSON.stringify writes it: the array is read when the text is made
StringifyPath(pd, hp) ==
    [id |-> pd.id, sequence |-> hp[pd.sessionRef].paths, intent |-> pd.intent,
     success |-> pd.success, heat |-> InitialPathHeat,
     accessCount |-> InitialAccessCount, sessionId |-> pd.sessionId,
     interactionCount |-> pd.interactionCount]

\* the arguments of a trackBrainNoteAccess call; none for the other calls
NoNote == [action |-> "none", notePath |-> ""]

IdleCall ==
    [op |-> "none", pc |-> "idle", path |-> "", ssId |-> NoSession, kind |-> "none",
     from |-> "", hm |-> EmptyHeatMap, pathData |-> NoPathData, note |-> NoNote]

NoOutcome ==
    [op |-> "none", path |-> "", success |-> 0, err |-> "none",
     sessionId |-> NoSession, pathLength |-> 0]

\* what a call that has ended returned (err = "none") or threw
Outcome(call, err, sessionId, pathLength) ==
    [op |-> call.op, path |-> call.path, success |-> call.pathData.success,
     err |-> err, sessionId |-> sessionId, pathLength |-> pathLength]

InFlight(c) == calls[c].pc /= "idle"

Quiescent == \A c \in Calls : ~InFlight(c)

\* a call that arrives is given the first free slot
CanBegin(c) ==
    /\ ~InFlight(c)
    /\ \A d \in 1..(c - 1) : InFlight(d)

\* a call that starts awaiting while another is in flight overlaps it
CanOverlap(c) == (\E d \in Calls \ {c} : InFlight(d)) => overlap < MaxOverlaps

Overlapping(c) == IF \E d \in Calls \ {c} : InFlight(d) THEN overlap + 1 ELSE overlap

\* the sessions something can still reach: the current one and those a call
\* in flight holds (its file name, its pathData.sequence)
Roots(cur, cs) ==
    ({cur} \cup {cs[c].ssId : c \in Calls} \cup {cs[c].pathData.sessionRef : c \in Calls})
        \ {NoSession}

Restrict(f, S) == [x \in (DOMAIN f) \cap S |-> f[x]]

\* the history of a run whose calls did not overlap: the last startTracking
\* (sessionId once it returned), the recordStep calls since, the path list,
\* the nodes and the edges stored when the latest call began, the session's
\* lists when the latest recordStep began, the last step of the session whose
\* recordStep returned, and the number of recordStep calls that returned, by
\* path and by the pair of that last step and the path
EmptyScript ==
    [sessionId |-> NoSession, intent |-> <<>>, steps |-> <<>>, paths |-> <<>>,
     nodes |-> <<>>, edges |-> <<>>, lists |-> [paths |-> <<>>, interactions |-> <<>>],
     last |-> "", nodeCount |-> [r \in Resources |-> 0],
     edgeCount |-> [e \in Resources \X Resources |-> 0]]

Scripted(ov, sc) == IF ov > 0 THEN EmptyScript ELSE sc

\* the history once a recordStep call for resourcePath has returned
Returned(sc, resourcePath) ==
    [sc EXCEPT !.last = resourcePath,
               !.nodeCount[resourcePath] = @ + 1,
               !.edgeCount = IF sc.last = "" THEN @
                             ELSE [@ EXCEPT ![<<sc.last, resourcePath>>] = @ + 1]]

----------------------------------------------------------------------------
(* startTracking, recordStep, endTracking up to their first await *)

RecordStepSyncNoGuard(cur, hp, resourcePath, type) ==
    IF cur = NoSession THEN [err |-> TypeError, heap |-> hp]
    ELSE [err |-> "none",
          heap |-> [hp EXCEPT ![cur].paths = Append(@, resourcePath),
                              ![cur].interactions =
                                  Append(@, [type |-> type, path |-> resourcePath])]]

\* recordStep: the guard and the two pushes
RecordStepSync(cur, hp, resourcePath, type) ==
    IF cur = NoSession THEN [err |-> NoSessionError, heap |-> hp]
    ELSE [err |-> "none",
          heap |-> [hp EXCEPT ![cur].paths = Append(@, resourcePath),
                              ![cur].interactions =
                                  Append(@, [type |-> type, path |-> resourcePath])]]

\* endTracking: the guard and pathData
EndTrackingSync(cur, hp, id, success) ==
    IF cur = NoSession THEN [err |-> NoSessionError, pathData |-> NoPathData]
    ELSE [err |-> "none", pathData |-> PathData(id, cur, hp, success)]

StartTracking(c, intent) ==
    /\ CanBegin(c)
    /\ CanOverlap(c)
    /\ started < MaxSessions
    /\ started' = started + 1
    /\ currentSession' = nextId
    /\ discarded' = IF currentSession = NoSession THEN discarded
                    ELSE discarded \cup {currentSession}
    /\ nextId' = nextId + 1
    \* saveSession: the session is there; its file name is fixed before the mkdir
    /\ calls' = [calls EXCEPT ![c] =
                    [IdleCall EXCEPT !.op = "startTracking", !.pc = "ss_mkdir",
                                     !.ssId = nextId]]
    /\ heap' = Restrict(heap @@ (nextId :> NewSession(nextId, intent)),
                        Roots(currentSession', calls'))
    /\ sessionDocs' = Restrict(sessionDocs @@ (nextId :> NoFile),
                               Roots(currentSession', calls'))
    /\ overlap' = Overlapping(c)
    /\ script' = Scripted(overlap', [EmptyScript EXCEPT !.intent = intent,
                                                        !.paths = LoadHeatMap(disk).paths,
                                                        !.nodes = LoadHeatMap(disk).nodes,
                                                        !.edges = LoadHeatMap(disk).edges,
                                                        !.nodeCount = script.nodeCount,
                                                        !.edgeCount = script.edgeCount])
    /\ outcome' = NoOutcome
    /\ UNCHANGED <<disk, failures, ended, stepped, appended, upserts, planIn, planOut,
                   readVars>>

RecordStep(c, resourcePath, type) ==
    LET r == RecordStepSync(currentSession, heap, resourcePath, type)
        begun == [IdleCall EXCEPT !.op = "recordStep", !.path = resourcePath] IN
    /\ CanBegin(c)
    /\ currentSession /= NoSession =>
            CanOverlap(c) /\ Len(heap[currentSession].paths) < MaxSteps
    /\ heap' = r.heap
    /\ calls' = [calls EXCEPT ![c] =
                    IF r.err /= "none" THEN IdleCall
                    ELSE [begun EXCEPT !.pc = "ss_mkdir", !.ssId = currentSession]]
    /\ outcome' = IF r.err /= "none" THEN Outcome(begun, r.err, NoSession, 0)
                  ELSE NoOutcome
    /\ overlap' = IF r.err /= "none" THEN overlap ELSE Overlapping(c)
    /\ script' = Scripted(overlap',
                    IF r.err /= "none" THEN script
                    ELSE [script EXCEPT !.steps = Append(@, resourcePath),
                                        !.paths = LoadHeatMap(disk).paths,
                                        !.nodes = LoadHeatMap(disk).nodes,
                                        !.edges = LoadHeatMap(disk).edges,
                                        !.lists =
                                            [paths |-> heap[currentSession].paths,
                                             interactions |->
                                                 heap[currentSession].interactions]])
    /\ UNCHANGED <<currentSession, sessionDocs, disk, nextId, started, discarded, failures,
                   ended, stepped, appended, upserts, planIn, planOut, readVars>>

EndTracking(c, success) ==
    LET r == EndTrackingSync(currentSession, heap, nextId, success)
        begun == [IdleCall EXCEPT !.op = "endTracking", !.pathData = r.pathData] IN
    /\ CanBegin(c)
    /\ currentSession /= NoSession => CanOverlap(c)
    /\ nextId' = IF r.err /= "none" THEN nextId ELSE nextId + 1
    \* savePath: loadHeatMap's readFile is the first await
    /\ calls' = [calls EXCEPT ![c] =
                    IF r.err /= "none" THEN IdleCall
                    ELSE [begun EXCEPT !.pc = "hm_read", !.kind = "path"]]
    /\ outcome' = IF r.err /= "none"
                  THEN [Outcome(begun, r.err, NoSession, 0) EXCEPT !.success = success]
                  ELSE NoOutcome
    /\ overlap' = IF r.err /= "none" THEN overlap ELSE Overlapping(c)
    /\ script' = Scripted(overlap', [script EXCEPT !.paths = LoadHeatMap(disk).paths,
                                                   !.nodes = LoadHeatMap(disk).nodes,
                                                   !.edges = LoadHeatMap(disk).edges])
    /\ UNCHANGED <<currentSession, heap, sessionDocs, disk, started, discarded, failures, ended,
                   stepped, appended, upserts, planIn, planOut, readVars>>

----------------------------------------------------------------------------
(* saveSession after its mkdir *)

\* The text is made from this.currentSession as it is now, and written.  When
\* the write is done startTracking returns and recordStep calls updateNodeHeat,
\* whose first await is loadHeatMap's readFile.
SaveSession(c) ==
    /\ calls[c].pc = "ss_mkdir"
    /\ \/ /\ \/ /\ calls[c].op = "startTracking"
                /\ calls' = [calls EXCEPT ![c] = IdleCall]
                /\ outcome' = Outcome(calls[c], "none", calls[c].ssId, 0)
                /\ script' = Scripted(overlap, [script EXCEPT !.sessionId = calls[c].ssId])
             \/ /\ calls[c].op \in {"recordStep", "trackBrainNoteAccess"}
                /\ calls' = [calls EXCEPT ![c].pc = "hm_read", ![c].kind = "node"]
                /\ outcome' = NoOutcome
                /\ UNCHANGED script
          /\ sessionDocs' = Restrict([sessionDocs EXCEPT ![calls[c].ssId] =
                                         StringifySession(currentSession, heap)],
                                     Roots(currentSession, calls'))
          /\ UNCHANGED failures
       \/ /\ failures < MaxFailures
          /\ failures' = failures + 1
          /\ calls' = [calls EXCEPT ![c] = IdleCall]
          /\ outcome' = Outcome(calls[c], StorageError, NoSession, 0)
          /\ sessionDocs' = Restrict(sessionDocs, Roots(currentSession, calls'))
          /\ UNCHANGED script
    /\ heap' = Restrict(heap, Roots(currentSession, calls'))
    /\ UNCHANGED <<currentSession, disk, nextId, started, discarded, ended, overlap, stepped,
                   appended, upserts, planIn, planOut, readVars>>

----------------------------------------------------------------------------
(* updateNodeHeat, updateEdgeHeat and savePath: load, mutate, save *)

\* loadHeatMap: the read completes and the text is parsed
LoadHeatMapDone(c) ==
    /\ calls[c].pc = "hm_read"
    /\ calls' = [calls EXCEPT ![c].hm = LoadHeatMap(disk), ![c].pc = "hm_mkdir"]
    /\ outcome' = NoOutcome
    /\ UNCHANGED <<currentSession, heap, sessionDocs, disk, nextId, started, discarded,
                   failures, ended, overlap, stepped, appended, upserts, script, planIn,
                   planOut, readVars>>

\* the heat map a cycle saves: what it loaded, changed in memory
MutatedHeatMap(call, hp) ==
    CASE call.kind = "node" -> UpdateNodeHeat(call.hm, call.path, DefaultIncrement)
      [] call.kind = "edge" ->
            UpdateEdgeHeat(call.hm, call.from, call.path, DefaultIncrement)
      [] call.kind = "path" -> SavePath(call.hm, StringifyPath(call.pathData, hp))

\* saveHeatMap after its mkdir: the text is made and writeFile opens the file,
\* which cuts it to nothing until the text is written; or the write fails
SaveHeatMapWrite(c) ==
    /\ calls[c].pc = "hm_mkdir"
    /\ \/ /\ calls' = [calls EXCEPT ![c].hm = MutatedHeatMap(calls[c], heap),
                                    ![c].pc = "hm_write"]
          /\ disk' = UnparseableFile
          /\ outcome' = NoOutcome
          /\ UNCHANGED failures
       \/ /\ failures < MaxFailures
          /\ failures' = failures + 1
          /\ calls' = [calls EXCEPT ![c] = IdleCall]
          /\ outcome' = Outcome(calls[c], StorageError, NoSession, 0)
          /\ UNCHANGED disk
    /\ heap' = Restrict(heap, Roots(currentSession, calls'))
    /\ sessionDocs' = Restrict(sessionDocs, Roots(currentSession, calls'))
    /\ UNCHANGED <<currentSession, nextId, started, discarded, ended, overlap, stepped,
                   appended, upserts, script, planIn, planOut, readVars>>

\* recordStep after updateNodeHeat: the edge from the step before the last one
NextAfterNodeHeat(call, cur, hp) ==
    IF cur = NoSession THEN [err |-> TypeError, call |-> IdleCall]
    ELSE IF Len(hp[cur].paths) > 1
         THEN [err |-> "none",
               call |-> [call EXCEPT !.pc = "hm_read", !.kind = "edge",
                                     !.hm = EmptyHeatMap,
                                     !.from = hp[cur].paths[Len(hp[cur].paths) - 1]]]
         ELSE [err |-> "none", call |-> IdleCall]

\* endTracking after savePath: the result, and this.currentSession = null
EndTrackingResult(call, cur, hp) ==
    IF cur = NoSession
    THEN [err |-> TypeError, sessionId |-> NoSession, pathLength |-> 0, cur |-> cur]
    ELSE [err |-> "none", sessionId |-> hp[cur].id,
          pathLength |-> Len(hp[cur].paths), cur |-> NoSession]

\* The text is written and the awaiting call goes on.  A text written over one
\* that another writer put there since this writer's open may leave a mix of
\* the two that does not parse.
SaveHeatMapDone(c) ==
    /\ calls[c].pc = "hm_write"
    /\ \/ disk' = JsonFile(calls[c].hm)
       \/ /\ disk.state = "json"
          /\ disk.content /= calls[c].hm
          /\ disk' = UnparseableFile
    /\ \/ /\ calls[c].kind = "node"
          /\ LET n == NextAfterNodeHeat(calls[c], currentSession, heap) IN
             /\ calls' = [calls EXCEPT ![c] = n.call]
             /\ outcome' = IF n.call.pc = "idle"
                           THEN Outcome(calls[c], n.err, NoSession, 0) ELSE NoOutcome
          /\ UNCHANGED <<currentSession, ended>>
       \/ /\ calls[c].kind = "edge"
          /\ calls' = [calls EXCEPT ![c] = IdleCall]
          /\ outcome' = Outcome(calls[c], "none", NoSession, 0)
          /\ UNCHANGED <<currentSession, ended>>
       \/ /\ calls[c].kind = "path"
          /\ LET r == EndTrackingResult(calls[c], currentSession, heap) IN
             /\ calls' = [calls EXCEPT ![c] = IdleCall]
             /\ outcome' = Outcome(calls[c], r.err, r.sessionId, r.pathLength)
             /\ currentSession' = r.cur
             /\ ended' = IF r.err = "none"
                         THEN ended \cup {calls[c].pathData.sessionId} ELSE ended
    /\ heap' = Restrict(heap, Roots(currentSession', calls'))
    /\ sessionDocs' = Restrict(sessionDocs, Roots(currentSession', calls'))
    /\ stepped' = IF calls[c].op = "recordStep" /\ outcome'.op = "recordStep"
                      /\ outcome'.err = "none"
                  THEN stepped \cup {calls[c].path} ELSE stepped
    /\ script' = IF calls[c].op = "recordStep" /\ outcome'.op = "recordStep"
                     /\ outcome'.err = "none"
                 THEN Scripted(overlap, Returned(script, calls[c].path))
                 ELSE script
    /\ UNCHANGED <<nextId, started, discarded, failures, overlap, appended, upserts, planIn,
                   planOut, readVars>>

----------------------------------------------------------------------------
(* trackBrainNoteAccess, the adapter the mercury-track command calls *)

BrainNavigation ==
    <<"b", "r", "a", "i", "n", "-", "n", "a", "v", "i", "g", "a", "t", "i", "o", "n">>

Actions == {"create", "read", "update", "delete", "list"}
NotePaths == {"/a", "b", "//a"}

CleanPathAllSlashes(notePath) ==
    IF notePath = "//a" THEN "a"
    ELSE IF Len(notePath) > 0 /\ Head(notePath) = "/" THEN Tail(notePath)
    ELSE notePath

\* notePath.replace(/^\//, '')
CleanPath(notePath) ==
    IF Len(notePath) > 0 /\ Head(notePath) = "/" THEN Tail(notePath) ELSE notePath

\* typeMap[action]
TypeMap(action) ==
    CASE action = "create" -> "create"
      [] action = "read" -> "note"
      [] action = "update" -> "note"
      [] action = "delete" -> "note"
      [] action = "list" -> "search"

\* The call up to its first await.  With no session it is startTracking's:
\* the new session is there before saveSession's mkdir.  With a session it is
\* recordStep's.  The history of the tool calls is left as it is.
TrackBrainNoteAccess(c, action, notePath) ==
    LET begun == [IdleCall EXCEPT !.op = "trackBrainNoteAccess",
                                  !.path = CleanPath(notePath),
                                  !.note = [action |-> action, notePath |-> notePath]] IN
    /\ CanBegin(c)
    /\ CanOverlap(c)
    /\ \/ /\ currentSession = NoSession
          /\ started < MaxSessions
          /\ started' = started + 1
          /\ currentSession' = nextId
          /\ nextId' = nextId + 1
          /\ calls' = [calls EXCEPT ![c] = [begun EXCEPT !.pc = "tb_mkdir", !.ssId = nextId]]
          /\ heap' = Restrict(heap @@ (nextId :> NewSession(nextId, BrainNavigation)),
                              Roots(currentSession', calls'))
          /\ sessionDocs' = Restrict(sessionDocs @@ (nextId :> NoFile),
                                     Roots(currentSession', calls'))
       \/ /\ currentSession /= NoSession
          /\ Len(heap[currentSession].paths) < MaxSteps
          /\ heap' = RecordStepSync(currentSession, heap, CleanPath(notePath),
                                    TypeMap(action)).heap
          /\ calls' = [calls EXCEPT ![c] =
                          [begun EXCEPT !.pc = "ss_mkdir", !.ssId = currentSession]]
          /\ UNCHANGED <<currentSession, sessionDocs, nextId, started>>
    /\ overlap' = Overlapping(c)
    /\ outcome' = NoOutcome
    /\ UNCHANGED <<disk, discarded, failures, ended, stepped, appended, upserts, script,
                   planIn, planOut, readVars>>

\* startTracking's saveSession after its mkdir: the session document is
\* written and the call goes on with recordStep up to its first await, or the
\* write fails and so does the call
TrackStarted(c) ==
    LET r == RecordStepSync(currentSession, heap, calls[c].path,
                            TypeMap(calls[c].note.action)) IN
    /\ calls[c].pc = "tb_mkdir"
    /\ \/ /\ calls' = [calls EXCEPT ![c] =
                          IF r.err /= "none" THEN IdleCall
                          ELSE [calls[c] EXCEPT !.pc = "ss_mkdir", !.ssId = currentSession]]
          /\ outcome' = IF r.err /= "none" THEN Outcome(calls[c], r.err, NoSession, 0)
                        ELSE NoOutcome
          /\ heap' = Restrict(r.heap, Roots(currentSession, calls'))
          /\ sessionDocs' = Restrict([sessionDocs EXCEPT ![calls[c].ssId] =
                                         StringifySession(currentSession, heap)],
                                     Roots(currentSession, calls'))
          /\ UNCHANGED failures
       \/ /\ failures < MaxFailures
          /\ failures' = failures + 1
          /\ calls' = [calls EXCEPT ![c] = IdleCall]
          /\ outcome' = Outcome(calls[c], StorageError, NoSession, 0)
          /\ heap' = Restrict(heap, Roots(currentSession, calls'))
          /\ sessionDocs' = Restrict(sessionDocs, Roots(currentSession, calls'))
    /\ UNCHANGED <<currentSession, disk, nextId, started, discarded, ended, overlap, stepped,
                   appended, upserts, script, planIn, planOut, readVars>>

----------------------------------------------------------------------------
(* The heat store's operations run from load to save *)

\* the record the n-th appendPath is given
NthPath(n) ==
    [id |-> n, sequence |-> <<>>, intent |-> <<>>, success |-> 0,
     heat |-> InitialPathHeat, accessCount |-> InitialAccessCount,
     sessionId |-> n, interactionCount |-> 0]

\* savePath, nothing else running
AppendPath ==
    /\ appended < MaxAppends
    /\ disk' = JsonFile(SavePath(LoadHeatMap(disk), NthPath(appended + 1)))
    /\ appended' = appended + 1
    /\ UNCHANGED <<currentSession, heap, sessionDocs, calls, nextId, started, discarded,
                   failures, outcome, ended, overlap, stepped, upserts, script, planIn, planOut,
                   readVars>>

HeatOf(hm, nodePath) == hm.nodes[FindIndex(hm.nodes, nodePath)].heat

\* updateNodeHeat(nodePath, increment), nothing else running
UpsertNode(nodePath, increment) ==
    /\ Len(upserts) < MaxUpserts
    /\ disk' = JsonFile(UpdateNodeHeat(LoadHeatMap(disk), nodePath, increment))
    /\ upserts' = Append(upserts, [key |-> nodePath, increment |-> increment,
                                   heat |-> HeatOf(disk'.content, nodePath)])
    /\ UNCHANGED <<currentSession, heap, sessionDocs, calls, nextId, started, discarded,
                   failures, outcome, ended, overlap, stepped, appended, script, planIn,
                   planOut, readVars>>

----------------------------------------------------------------------------
(* The planner *)

EstimatedTokens(path) == Len(path.sequence) * TokensPerStep

RECURSIVE LoadedRanksNoBudget(_, _, _, _, _)
LoadedRanksNoBudget(paths, maxTokens, i, totalTokens, ranks) ==
    IF i > Len(paths) THEN ranks
    ELSE LET total == totalTokens + EstimatedTokens(paths[i]) IN
         IF total * 10 >= maxTokens * BreakTenths THEN Append(ranks, i)
         ELSE LoadedRanksNoBudget(paths, maxTokens, i + 1, total, Append(ranks, i))

RECURSIVE LoadedRanksStrict(_, _, _, _, _)
LoadedRanksStrict(paths, maxTokens, i, totalTokens, ranks) ==
    IF i > Len(paths) THEN ranks
    ELSE LET fits == totalTokens + EstimatedTokens(paths[i]) < maxTokens
             total == IF fits THEN totalTokens + EstimatedTokens(paths[i])
                      ELSE totalTokens
             loaded == IF fits THEN Append(ranks, i) ELSE ranks IN
         IF total * 10 >= maxTokens * BreakTenths THEN loaded
         ELSE LoadedRanksStrict(paths, maxTokens, i + 1, total, loaded)

RECURSIVE LoadedRanksBreakOnInclude(_, _, _, _, _)
LoadedRanksBreakOnInclude(paths, maxTokens, i, totalTokens, ranks) ==
    IF i > Len(paths) THEN ranks
    ELSE LET fits == totalTokens + EstimatedTokens(paths[i]) <= maxTokens
             total == IF fits THEN totalTokens + EstimatedTokens(paths[i])
                      ELSE totalTokens
             loaded == IF fits THEN Append(ranks, i) ELSE ranks IN
         IF fits /\ total * 10 >= maxTokens * BreakTenths THEN loaded
         ELSE LoadedRanksBreakOnInclude(paths, maxTokens, i + 1, total, loaded)

\* calculateLoadingPlan's loop from the i-th ranked path on: the ranks loaded
RECURSIVE LoadedRanks(_, _, _, _, _)
LoadedRanks(paths, maxTokens, i, totalTokens, ranks) ==
    IF i > Len(paths) THEN ranks
    ELSE LET fits == totalTokens + EstimatedTokens(paths[i]) <= maxTokens
             total == IF fits THEN totalTokens + EstimatedTokens(paths[i])
                      ELSE totalTokens
             loaded == IF fits THEN Append(ranks, i) ELSE ranks IN
         IF total * 10 >= maxTokens * BreakTenths THEN loaded
         ELSE LoadedRanks(paths, maxTokens, i + 1, total, loaded)

\* path.sequence[0]
FirstStep(sequence) == IF Len(sequence) = 0 THEN "undefined" ELSE sequence[1]

\* calculateLoadingPlan: the entries of the ranks loaded
CalculateLoadingPlan(paths, maxTokens) ==
    LET ranks == LoadedRanks(paths, maxTokens, 1, 0, <<>>) IN
    [ranks |-> ranks,
     plan |-> [k \in 1..Len(ranks) |->
                  [path |-> FirstStep(paths[ranks[k]].sequence),
                   gradient |-> paths[ranks[k]].relevance,
                   tokens |-> EstimatedTokens(paths[ranks[k]])]]]

RECURSIVE SumTokens(_)
\* evolveContext's totalTokens
SumTokens(plan) ==
    IF Len(plan) = 0 THEN 0 ELSE plan[1].tokens + SumTokens(Tail(plan))

NoQuery == [op |-> "none"]
NoAnswer == [op |-> "none"]

NoPlanIn == [ranked |-> <<>>, maxTokens |-> 0]
NoPlanOut == [computed |-> FALSE, ranks |-> <<>>, plan |-> <<>>]

Sequences == {<<>>, <<"a">>, <<"b", "a">>, <<"a", "b", "a", "b">>}
Relevances == {30, 150}
Budgets == {-500, 0, 499, 500, 1250, 2000, 30000}

RankedPath == [sequence : Sequences, relevance : Relevances]

\* findRelevantPaths returns its results sorted by relevance, highest first
RankedLists ==
    UNION {{r \in [1..n -> RankedPath] :
                \A i \in 1..(n - 1) : r[i].relevance >= r[i + 1].relevance}
           : n \in 0..MaxRanked}

\* evolveContext's call of calculateLoadingPlan
Plan ==
    /\ ~planOut.computed
    /\ LET r == CalculateLoadingPlan(planIn.ranked, planIn.maxTokens) IN
       planOut' = [computed |-> TRUE, ranks |-> r.ranks, plan |-> r.plan]
    /\ UNCHANGED <<currentSession, heap, sessionDocs, disk, calls, nextId, started, discarded,
                   failures, outcome, ended, overlap, stepped, appended, upserts, script,
                   planIn, readVars>>

----------------------------------------------------------------------------
(* Strings: a string is the sequence of its characters *)

\* U+212A KELVIN SIGN: not a word character, its lower case is "k"
Kelvin == "U+212A"

LowerCase ==
    <<"a", "b", "c", "d", "e", "f", "g", "h", "i", "j", "k", "l", "m", "n",
      "o", "p", "q", "r", "s", "t", "u", "v", "w", "x", "y", "z">>
UpperCase ==
    <<"A", "B", "C", "D", "E", "F", "G", "H", "I", "J", "K", "L", "M", "N",
      "O", "P", "Q", "R", "S", "T", "U", "V", "W", "X", "Y", "Z">>
Digits == {"0", "1", "2", "3", "4", "5", "6", "7", "8", "9"}

IndexIn(alphabet, ch) == CHOOSE i \in 1..Len(alphabet) : alphabet[i] = ch
LowerSet == {LowerCase[i] : i \in 1..Len(LowerCase)}
UpperSet == {UpperCase[i] : i \in 1..Len(UpperCase)}

\* the characters String.prototype.toLowerCase changes, and what it makes them
ToLower ==
    [ch \in UpperSet \cup {Kelvin} |->
        IF ch = Kelvin THEN "k" ELSE LowerCase[IndexIn(UpperCase, ch)]]

\* how a pattern with the i flag (and no u flag) compares characters: by
\* their upper case, which for the Kelvin sign is the sign itself
ToUpper == [ch \in LowerSet |-> UpperCase[IndexIn(LowerCase, ch)]]

\* String.prototype.toLowerCase
ToLowerCase(text) ==
    [i \in 1..Len(text) |-> IF text[i] \in DOMAIN ToLower THEN ToLower[text[i]] ELSE text[i]]

Canonicalize(text) ==
    [i \in 1..Len(text) |-> IF text[i] \in DOMAIN ToUpper THEN ToUpper[text[i]] ELSE text[i]]

\* \w
WordChars == LowerSet \cup UpperSet \cup Digits \cup {"_"}

IsWordChar(ch) == ch \in WordChars

RECURSIVE WordRunsFrom(_, _, _, _)
WordRunsFrom(text, i, run, runs) ==
    IF i > Len(text) THEN (IF run = <<>> THEN runs ELSE Append(runs, run))
    ELSE IF IsWordChar(text[i])
         THEN WordRunsFrom(text, i + 1, Append(run, text[i]), runs)
         ELSE WordRunsFrom(text, i + 1, <<>>,
                           IF run = <<>> THEN runs ELSE Append(runs, run))

\* the maximal runs of word characters, in order: what lies between two \b
WordRuns(text) == WordRunsFrom(text, 1, <<>>, <<>>)

\* text.match(/\b(k1|k2|...)\b/g), with the i flag when ignoreCase: a keyword
\* between two word boundaries is a whole run of word characters
Match(text, keywords, ignoreCase) ==
    SelectSeq(WordRuns(text),
              LAMBDA run : IF ignoreCase
                           THEN \E k \in keywords : Canonicalize(k) = Canonicalize(run)
                           ELSE run \in keywords)

----------------------------------------------------------------------------
(* Intent analysis *)

Debug == <<"d", "e", "b", "u", "g">>
Implementation == <<"i", "m", "p", "l", "e", "m", "e", "n", "t", "a", "t", "i", "o", "n">>
Research == <<"r", "e", "s", "e", "a", "r", "c", "h">>
Documentation == <<"d", "o", "c", "u", "m", "e", "n", "t", "a", "t", "i", "o", "n">>
Planning == <<"p", "l", "a", "n", "n", "i", "n", "g">>
General == <<"g", "e", "n", "e", "r", "a", "l">>

\* detectIntent's patterns
DetectKeywords(intent) ==
    CASE intent = Debug ->
    {<<"d", "e", "b", "u", "g">>, <<"f", "i", "x">>, <<"e", "r", "r", "o", "r">>,
     <<"i", "s", "s", "u", "e">>, <<"p", "r", "o", "b", "l", "e", "m">>,
     <<"b", "u", "g">>}
      [] intent = Implementation ->
    {<<"c", "r", "e", "a", "t", "e">>, <<"b", "u", "i", "l", "d">>,
     <<"i", "m", "p", "l", "e", "m", "e", "n", "t">>,
     <<"d", "e", "v", "e", "l", "o", "p">>, <<"m", "a", "k", "e">>}
      [] intent = Research ->
    {<<"a", "n", "a", "l", "y", "z", "e">>, <<"r", "e", "s", "e", "a", "r", "c", "h">>,
     <<"e", "x", "p", "l", "o", "r", "e">>,
     <<"i", "n", "v", "e", "s", "t", "i", "g", "a", "t", "e">>, <<"f", "i", "n", "d">>,
     <<"l", "e", "a", "r", "n">>}
      [] intent = Documentation ->
    {<<"d", "o", "c", "u", "m", "e", "n", "t">>, <<"e", "x", "p", "l", "a", "i", "n">>,
     <<"d", "e", "s", "c", "r", "i", "b", "e">>, <<"w", "r", "i", "t", "e">>}
      [] intent = Planning ->
    {<<"p", "l", "a", "n">>, <<"d", "e", "s", "i", "g", "n">>,
     <<"a", "r", "c", "h", "i", "t", "e", "c", "t">>,
     <<"s", "t", "r", "u", "c", "t", "u", "r", "e">>}

DetectIntentPlanningFirst(input) ==
    LET lowered == ToLowerCase(input) IN
    IF Match(lowered, DetectKeywords(Planning), FALSE) /= <<>> THEN Planning
    ELSE IF Match(lowered, DetectKeywords(Debug), FALSE) /= <<>> THEN Debug
    ELSE IF Match(lowered, DetectKeywords(Implementation), FALSE) /= <<>> THEN Implementation
    ELSE IF Match(lowered, DetectKeywords(Research), FALSE) /= <<>> THEN Research
    ELSE IF Match(lowered, DetectKeywords(Documentation), FALSE) /= <<>> THEN Documentation
    ELSE General

\* detectIntent
DetectIntent(input) ==
    LET lowered == ToLowerCase(input) IN
    IF Match(lowered, DetectKeywords(Debug), FALSE) /= <<>> THEN Debug
    ELSE IF Match(lowered, DetectKeywords(Implementation), FALSE) /= <<>> THEN Implementation
    ELSE IF Match(lowered, DetectKeywords(Research), FALSE) /= <<>> THEN Research
    ELSE IF Match(lowered, DetectKeywords(Documentation), FALSE) /= <<>> THEN Documentation
    ELSE IF Match(lowered, DetectKeywords(Planning), FALSE) /= <<>> THEN Planning
    ELSE General

\* calculateConfidence's keywords
ConfidenceKeywords(intent) ==
    CASE intent = Debug ->
    {<<"d", "e", "b", "u", "g">>, <<"f", "i", "x">>, <<"e", "r", "r", "o", "r">>,
     <<"i", "s", "s", "u", "e">>, <<"p", "r", "o", "b", "l", "e", "m">>,
     <<"b", "u", "g">>, <<"b", "r", "o", "k", "e", "n">>, <<"f", "a", "i", "l">>}
      [] intent = Implementation ->
    {<<"c", "r", "e", "a", "t", "e">>, <<"b", "u", "i", "l", "d">>,
     <<"i", "m", "p", "l", "e", "m", "e", "n", "t">>,
     <<"d", "e", "v", "e", "l", "o", "p">>, <<"m", "a", "k", "e">>,
     <<"c", "o", "d", "e">>, <<"p", "r", "o", "g", "r", "a", "m">>}
      [] intent = Research ->
    {<<"a", "n", "a", "l", "y", "z", "e">>, <<"r", "e", "s", "e", "a", "r", "c", "h">>,
     <<"e", "x", "p", "l", "o", "r", "e">>,
     <<"i", "n", "v", "e", "s", "t", "i", "g", "a", "t", "e">>, <<"f", "i", "n", "d">>,
     <<"l", "e", "a", "r", "n">>, <<"w", "h", "a", "t">>, <<"h", "o", "w">>,
     <<"w", "h", "y">>}
      [] intent = Documentation ->
    {<<"d", "o", "c", "u", "m", "e", "n", "t">>, <<"e", "x", "p", "l", "a", "i", "n">>,
     <<"d", "e", "s", "c", "r", "i", "b", "e">>, <<"w", "r", "i", "t", "e">>,
     <<"s", "u", "m", "m", "a", "r", "i", "z", "e">>,
     <<"o", "u", "t", "l", "i", "n", "e">>}
      [] intent = Planning ->
    {<<"p", "l", "a", "n">>, <<"d", "e", "s", "i", "g", "n">>,
     <<"a", "r", "c", "h", "i", "t", "e", "c", "t">>,
     <<"s", "t", "r", "u", "c", "t", "u", "r", "e">>,
     <<"o", "r", "g", "a", "n", "i", "z", "e">>,
     <<"s", "t", "r", "a", "t", "e", "g", "y">>}

\* confidences are counted in hundredths
BaseConfidence == 50
ConfidencePerMatch == 10
MaxConfidence == 95
AlternativeThreshold == 60

AllIntents == <<Debug, Implementation, Research, Documentation, Planning>>

HasKeywords(intent) == \E i \in 1..Len(AllIntents) : AllIntents[i] = intent

CalculateConfidenceUnclamped(input, intent) ==
    IF ~HasKeywords(intent) THEN BaseConfidence
    ELSE BaseConfidence
            + Len(Match(input, ConfidenceKeywords(intent), TRUE)) * ConfidencePerMatch

\* calculateConfidence
CalculateConfidence(input, intent) ==
    IF ~HasKeywords(intent) THEN BaseConfidence
    ELSE LET matches == Match(input, ConfidenceKeywords(intent), TRUE) IN
         IF matches /= <<>>
         THEN Min(BaseConfidence + Len(matches) * ConfidencePerMatch, MaxConfidence)
         ELSE BaseConfidence

\* analyzeIntent's four signal patterns, in the order they are tested
SignalPatterns ==
    <<[signal |-> "question", keywords |->
    {<<"h", "o", "w">>, <<"w", "h", "a", "t">>, <<"w", "h", "y">>,
     <<"w", "h", "e", "n">>, <<"w", "h", "e", "r", "e">>, <<"w", "h", "o">>}],
      [signal |-> "problem-solving", keywords |->
    {<<"d", "e", "b", "u", "g">>, <<"f", "i", "x">>, <<"e", "r", "r", "o", "r">>,
     <<"i", "s", "s", "u", "e">>, <<"p", "r", "o", "b", "l", "e", "m">>}],
      [signal |-> "creation", keywords |->
    {<<"c", "r", "e", "a", "t", "e">>, <<"b", "u", "i", "l", "d">>,
     <<"i", "m", "p", "l", "e", "m", "e", "n", "t">>,
     <<"d", "e", "v", "e", "l", "o", "p">>}],
      [signal |-> "research", keywords |->
    {<<"a", "n", "a", "l", "y", "z", "e">>, <<"r", "e", "s", "e", "a", "r", "c", "h">>,
     <<"e", "x", "p", "l", "o", "r", "e">>,
     <<"i", "n", "v", "e", "s", "t", "i", "g", "a", "t", "e">>}]>>

\* analyzeIntent's signals
Signals(input) ==
    LET hit == SelectSeq(SignalPatterns,
                         LAMBDA p : Match(input, p.keywords, TRUE) /= <<>>) IN
    [i \in 1..Len(hit) |-> hit[i].signal]

GetAlternativeIntentsNoSlice(primary, input) ==
    SelectSeq(AllIntents,
              LAMBDA intent : /\ intent /= primary
                              /\ CalculateConfidence(input, intent) > AlternativeThreshold)

\* getAlternativeIntents
GetAlternativeIntents(primary, input) ==
    LET alternatives ==
            SelectSeq(AllIntents,
                      LAMBDA intent : /\ intent /= primary
                                      /\ CalculateConfidence(input, intent)
                                            > AlternativeThreshold) IN
    SubSeq(alternatives, 1, Min(2, Len(alternatives)))

\* analyzeIntent
AnalyzeIntent(input) ==
    LET intent == DetectIntent(input) IN
    [intent |-> intent,
     confidence |-> CalculateConfidence(input, intent),
     signals |-> Signals(input),
     alternatives |-> GetAlternativeIntents(intent, input)]

\* the usage example of README.md
ReadmeInput ==
    <<"h", "o", "w", " ", "d", "o", " ", "I", " ", "d", "e", "b", "u", "g",
      " ", "t", "h", "e", " ", "p", "a", "t", "h", " ", "t", "r", "a", "c",
      "k", "i", "n", "g", " ", "i", "s", "s", "u", "e", "?">>

\* the pieces the inputs of the model are put together from
Pieces ==
    {<<"f", "i", "x", " ">>, <<"b", "u", "g", " ", "b", "u", "g", " ">>,
     <<"m", "a", "k", "e", " ">>, <<"m", "a", Kelvin, "e", " ">>,
     <<"p", "l", "a", "n", " ">>, <<"f", "i", "n", "d", " ">>,
     <<"w", "r", "i", "t", "e", " ">>, <<"h", "o", "w", " ">>, <<"x">>,
     <<"F", "i", "x", "?">>, <<"h", "o", "w", " ", "w", "h", "y", " ">>,
     <<"w", "r", "i", "t", "e", " ", "w", "r", "i", "t", "e", " ",
       "p", "l", "a", "n", " ", "p", "l", "a", "n", " ">>}

RECURSIVE Concat(_)
Concat(pieces) == IF pieces = <<>> THEN <<>> ELSE Head(pieces) \o Concat(Tail(pieces))

\* every string of at most MaxPieces pieces
Texts == {Concat(ps) : ps \in UNION {[1..n -> Pieces] : n \in 0..MaxPieces}}

\* the analyze_intent tool
HandleAnalyzeIntent(input) ==
    /\ query' = [op |-> "analyze_intent", input |-> input]
    /\ answer' = [op |-> "analyze_intent", analysis |-> AnalyzeIntent(input)]
    /\ outcome' = [NoOutcome EXCEPT !.op = "analyzeIntent"]
    /\ UNCHANGED <<currentSession, heap, sessionDocs, disk, calls, nextId, started, discarded,
                   failures, ended, overlap, stepped, appended, upserts, script, planIn,
                   planOut>>

----------------------------------------------------------------------------
(* Relevance ranking *)

Max(x, y) == IF x >= y THEN x ELSE y

RECURSIVE LevenshteinRow(_, _, _, _)
\* levenshteinDistance's inner loop: row i of the matrix, filled from the left;
\* with j == Len(row) the next cell is matrix[i][j], row[j] is matrix[i][j - 1],
\* above[j] is matrix[i - 1][j - 1] and ch is str2.charAt(i - 1)
LevenshteinRow(str1, ch, above, row) ==
    IF Len(row) > Len(str1) THEN row
    ELSE LET j == Len(row) IN
         LevenshteinRow(str1, ch, above,
            Append(row, IF ch = str1[j] THEN above[j]
                        ELSE Min(Min(above[j] + 1, row[j] + 1), above[j + 1] + 1)))

RECURSIVE LevenshteinRows(_, _, _)
\* levenshteinDistance's outer loop: the matrix, one row for each i in
\* 0..str2.length
LevenshteinRows(str1, str2, matrix) ==
    IF Len(matrix) > Len(str2) THEN matrix
    ELSE LET i == Len(matrix) IN
         LevenshteinRows(str1, str2,
            Append(matrix, LevenshteinRow(str1, str2[i], matrix[i], <<i>>)))

\* levenshteinDistance: matrix[str2.length][str1.length]
LevenshteinDistance(str1, str2) ==
    LevenshteinRows(str1, str2,
                    <<[j \in 1..(Len(str1) + 1) |-> j - 1]>>)[Len(str2) + 1][Len(str1) + 1]

\* similarity(a, b) as the fraction num / den
SimilarityEmptyIsZero(a, b) ==
    LET longerLength == Max(Len(a), Len(b)) IN
    [num |-> longerLength - LevenshteinDistance(ToLowerCase(a), ToLowerCase(b)),
     den |-> Max(longerLength, 1)]

Similarity(a, b) ==
    LET longerLength == Max(Len(a), Len(b)) IN
    IF longerLength = 0 THEN [num |-> 1, den |-> 1]
    ELSE [num |-> longerLength - LevenshteinDistance(ToLowerCase(a), ToLowerCase(b)),
          den |-> longerLength]

RECURSIVE SplitFrom(_, _, _, _)
SplitFrom(text, i, word, words) ==
    IF i > Len(text) THEN Append(words, word)
    ELSE IF text[i] = " " THEN SplitFrom(text, i + 1, <<>>, Append(words, word))
    ELSE SplitFrom(text, i + 1, Append(word, text[i]), words)

\* text.split(' ')
Split(text) == SplitFrom(text, 1, <<>>, <<>>)

\* new Set(text.toLowerCase().split(' '))
WordSet(text) == {Split(ToLowerCase(text))[i] : i \in 1..Len(Split(ToLowerCase(text)))}

\* Scores are counted in units of 1 / (10 * ScoreUnit), so that every term is
\* a whole number for strings and word sets of up to 16 elements:
\* ScoreUnit is the least common multiple of 1..16.
ScoreUnit == 720720
\* path successes are counted in tenths
NeutralSuccess == 5

\* findRelevantPaths: the score of one path and its reasons
ScorePath(path, analysis, originalInput) ==
    LET exact == path.intent = analysis.intent
        sim == Similarity(originalInput, path.intent)
        similar == 10 * sim.num > 3 * sim.den
        inputWords == WordSet(originalInput)
        pathWords == WordSet(path.intent)
        overlapSize == Cardinality(inputWords \cap pathWords)
        larger == Max(Cardinality(inputWords), Cardinality(pathWords))
        category == /\ analysis.intent /= General
                    /\ DetectIntent(path.intent) = analysis.intent IN
    [relevance |->
          (IF exact THEN 10 * ScoreUnit ELSE 0)
        + (IF similar THEN 8 * sim.num * (ScoreUnit \div sim.den) ELSE 0)
        + (IF overlapSize > 0 THEN 6 * overlapSize * (ScoreUnit \div larger) ELSE 0)
        + (IF category THEN 5 * ScoreUnit ELSE 0),
     matchReasons |->
          (IF exact THEN <<"exact_intent_match">> ELSE <<>>)
       \o (IF similar THEN <<"text_similarity">> ELSE <<>>)
       \o (IF overlapSize > 0 THEN <<"keyword_overlap">> ELSE <<>>)
       \o (IF category THEN <<"category_match">> ELSE <<>>)]

\* the threshold 0.3
Threshold == 3 * ScoreUnit

RECURSIVE SortByRelevance(_)
\* results.sort((a, b) => b.relevance - a.relevance): highest first, equal
\* ones in the order they had
SortByRelevance(results) ==
    IF results = <<>> THEN <<>>
    ELSE LET rest == SortByRelevance(SubSeq(results, 1, Len(results) - 1))
             last == results[Len(results)]
             before == SelectSeq(rest, LAMBDA r : r.relevance >= last.relevance)
             after == SelectSeq(rest, LAMBDA r : r.relevance < last.relevance) IN
         before \o <<last>> \o after

FindRelevantPathsAnySuccess(analysis, originalInput, heatMap) ==
    LET scored == [i \in 1..Len(heatMap.paths) |->
                      heatMap.paths[i]
                          @@ ScorePath(heatMap.paths[i], analysis, originalInput)] IN
    SortByRelevance(SelectSeq(scored, LAMBDA r : r.relevance >= Threshold))

FindRelevantPathsNoExactMatch(analysis, originalInput, heatMap) ==
    LET scored == [i \in 1..Len(heatMap.paths) |->
                      heatMap.paths[i]
                          @@ ScorePath(heatMap.paths[i],
                                       [analysis EXCEPT !.intent = <<"none">>],
                                       originalInput)] IN
    SortByRelevance(SelectSeq(scored, LAMBDA r : /\ r.success > NeutralSuccess
                                                 /\ r.relevance >= Threshold))

\* findRelevantPaths
FindRelevantPaths(analysis, originalInput, heatMap) ==
    LET scored == [i \in 1..Len(heatMap.paths) |->
                      heatMap.paths[i]
                          @@ ScorePath(heatMap.paths[i], analysis, originalInput)] IN
    SortByRelevance(SelectSeq(scored, LAMBDA r : /\ r.success > NeutralSuccess
                                                 /\ r.relevance >= Threshold))

EvolveContextInSession(intent, maxTokens, heatMap) ==
    LET analysis == AnalyzeIntent(intent)
        relevantPaths == IF currentSession = NoSession
                         THEN FindRelevantPaths(analysis, intent, heatMap) ELSE <<>>
        loaded == CalculateLoadingPlan(relevantPaths, maxTokens) IN
    [op |-> "evolve_context", intent |-> analysis.intent,
     confidence |-> analysis.confidence, relevantPaths |-> relevantPaths,
     loadedPaths |-> loaded.plan, totalTokens |-> SumTokens(loaded.plan)]

\* evolveContext: what it returns, with the ranked list it was made from
EvolveContext(intent, maxTokens, heatMap) ==
    LET analysis == AnalyzeIntent(intent)
        relevantPaths == FindRelevantPaths(analysis, intent, heatMap)
        loaded == CalculateLoadingPlan(relevantPaths, maxTokens) IN
    [op |-> "evolve_context", intent |-> analysis.intent,
     confidence |-> analysis.confidence, relevantPaths |-> relevantPaths,
     loadedPaths |-> loaded.plan, totalTokens |-> SumTokens(loaded.plan)]

DefaultMaxTokens == 30000

\* the intents of the stored paths and the requests of the ranking model
StoredIntents == {<<>>, Debug, <<"f", "i", "x", " ">>, <<"p", "l", "a", "n", " ", "x">>}
StoredSuccesses == {5, 9}

\* the i-th stored path
StoredPath(i, intent, success) ==
    [id |-> i, sequence |-> <<"a">>, intent |-> intent, success |-> success,
     heat |-> InitialPathHeat, accessCount |-> InitialAccessCount,
     sessionId |-> i, interactionCount |-> 1]

StoredPathLists ==
    UNION {{[i \in 1..n |-> StoredPath(i, c[i][1], c[i][2])] :
                c \in [1..n -> StoredIntents \X StoredSuccesses]}
           : n \in 0..MaxStored}

RequestPieces ==
    {<<"f", "i", "x", " ">>, <<"p", "l", "a", "n", " ", "x">>, <<"x">>,
     <<"D", "e", "b", "u", "g">>}

Requests ==
    {Concat(ps) : ps \in UNION {[1..n -> RequestPieces] : n \in 0..MaxRequestPieces}}

\* the evolve_context tool, nothing else running; the request is kept with
\* the document it was answered from and whether a session was active
HandleEvolveContext(intent, maxTokens) ==
    /\ query' = [op |-> "evolve_context", intent |-> intent, maxTokens |-> maxTokens,
                 active |-> currentSession /= NoSession, stored |-> disk]
    /\ answer' = EvolveContext(intent, maxTokens, LoadHeatMap(disk))
    /\ outcome' = [NoOutcome EXCEPT !.op = "evolveContext"]
    /\ UNCHANGED <<currentSession, heap, sessionDocs, disk, calls, nextId, started, discarded,
                   failures, ended, overlap, stepped, appended, upserts, script, planIn,
                   planOut>>

----------------------------------------------------------------------------
(* The other tools and the dispatcher *)

DefaultLimit == 10
SyncLimit == 20
Limits == {0, 1}

RECURSIVE SortByHeat(_)
\* entries.sort((a, b) => b.heat - a.heat)
SortByHeat(entries) ==
    IF entries = <<>> THEN <<>>
    ELSE LET rest == SortByHeat(SubSeq(entries, 1, Len(entries) - 1))
             last == entries[Len(entries)]
             before == SelectSeq(rest, LAMBDA e : e.heat >= last.heat)
             after == SelectSeq(rest, LAMBDA e : e.heat < last.heat) IN
         before \o <<last>> \o after

\* entries.slice(0, n), n >= 0
Slice(entries, n) == SubSeq(entries, 1, Min(n, Len(entries)))

\* getHeatMap
GetHeatMap(limit, heatMap) ==
    [hotNodes |->
        Slice(SortByHeat([i \in 1..Len(heatMap.nodes) |->
                             [path |-> heatMap.nodes[i].key,
                              heat |-> heatMap.nodes[i].heat,
                              accessCount |-> heatMap.nodes[i].accessCount]]),
              limit),
     strongEdges |->
        Slice(SortByHeat([i \in 1..Len(heatMap.edges) |->
                             [from |-> heatMap.edges[i].from,
                              to |-> heatMap.edges[i].to,
                              heat |-> heatMap.edges[i].heat,
                              traversalCount |-> heatMap.edges[i].traversalCount]]),
              limit \div 2),
     totalPaths |-> Len(heatMap.paths)]

\* the get_heat_map tool: args.limit || 10
HandleGetHeatMap(limit) ==
    /\ query' = [op |-> "get_heat_map", limit |-> limit]
    /\ answer' = [op |-> "get_heat_map",
                  heatMap |-> GetHeatMap(IF limit = 0 THEN DefaultLimit ELSE limit,
                                         LoadHeatMap(disk))]
    /\ outcome' = [NoOutcome EXCEPT !.op = "getHeatMap"]
    /\ UNCHANGED <<currentSession, heap, sessionDocs, disk, calls, nextId, started, discarded,
                   failures, ended, overlap, stepped, appended, upserts, script, planIn,
                   planOut>>

DefaultDirection == "brain-to-mercury"
Directions == {"", "brain-to-mercury", "mercury-to-brain", "bidirectional", "sideways"}
UnknownDirectionError == "Unknown sync direction: sideways"
UnknownTools == {"mercury_reset"}
UnknownToolError == "Unknown tool: mercury_reset"

\* BrainSync.sync
Sync(direction, heatMap) ==
    LET b2m == [err |-> "none", pathsSynced |-> 0, heatMapUpdated |-> FALSE]
        m2b == [err |-> "none",
                pathsSynced |-> Len(GetHeatMap(SyncLimit, heatMap).hotNodes),
                heatMapUpdated |-> FALSE] IN
    CASE direction = "brain-to-mercury" -> b2m
      [] direction = "mercury-to-brain" -> m2b
      [] direction = "bidirectional" ->
            [err |-> "none", pathsSynced |-> b2m.pathsSynced + m2b.pathsSynced,
             heatMapUpdated |-> TRUE]
      [] OTHER -> [err |-> UnknownDirectionError, pathsSynced |-> 0,
                   heatMapUpdated |-> FALSE]

\* the sync_with_brain tool: args.direction || 'brain-to-mercury'
HandleSyncWithBrain(direction) ==
    LET r == Sync(IF direction = "" THEN DefaultDirection ELSE direction,
                  LoadHeatMap(disk)) IN
    /\ query' = [op |-> "sync_with_brain", direction |-> direction]
    /\ answer' = IF r.err /= "none" THEN NoAnswer
                 ELSE [op |-> "sync_with_brain", pathsSynced |-> r.pathsSynced,
                       heatMapUpdated |-> r.heatMapUpdated]
    /\ outcome' = [NoOutcome EXCEPT !.op = "sync", !.err = r.err]
    /\ UNCHANGED <<currentSession, heap, sessionDocs, disk, calls, nextId, started, discarded,
                   failures, ended, overlap, stepped, appended, upserts, script, planIn,
                   planOut>>

\* a call of a tool the dispatcher does not know: the default of its switch
HandleUnknownTool(name) ==
    /\ query' = [op |-> name]
    /\ answer' = NoAnswer
    /\ outcome' = [NoOutcome EXCEPT !.op = name, !.err = UnknownToolError]
    /\ UNCHANGED <<currentSession, heap, sessionDocs, disk, calls, nextId, started, discarded,
                   failures, ended, overlap, stepped, appended, upserts, script, planIn,
                   planOut>>

\* the first line of the text a handler returns; the values after it are left out
SuccessHead(op) ==
    CASE op = "startTracking" -> "Started tracking session: "
      [] op = "recordStep" -> "Recorded "
      [] op = "endTracking" -> "Session ended"
      [] op = "analyzeIntent" -> "Intent Analysis:"
      [] op = "getHeatMap" -> "Knowledge Heat Map:"
      [] op = "evolveContext" -> "Adaptive Context Loading:"
      [] op = "sync" -> "Sync complete:"

SuccessHeads ==
    {SuccessHead(op) : op \in {"startTracking", "recordStep", "endTracking", "analyzeIntent",
                               "getHeatMap", "evolveContext", "sync"}}

DispatchNoCatch(result) ==
    IF result.err /= "none" THEN [kind |-> "fault", text |-> <<result.err>>]
    ELSE [kind |-> "result", text |-> <<SuccessHead(result.op)>>]

\* the CallTool handler: what the caller gets for a call that returned or threw
Dispatch(result) ==
    IF result.err /= "none" THEN [kind |-> "result", text |-> <<"Error: ", result.err>>]
    ELSE [kind |-> "result", text |-> <<SuccessHead(result.op)>>]

----------------------------------------------------------------------------
(* The round trip of the document *)

\* the readings of Date.now()
Clock == {1, 2}

LastMaintenances == {0, 1, 2}
Versions == {"", "1.0.0", "2.0.0"}

StoredNode == [key |-> "a", heat |-> DefaultIncrement, accessCount |-> 1]
StoredEdge ==
    [key |-> <<"a", "b">>, from |-> "a", to |-> "b", heat |-> DefaultIncrement,
     traversalCount |-> 1]
StoredIntent == [key |-> Debug, count |-> 1]

\* the values of HeatMapData the round trip is made with
HeatMaps ==
    [paths : {<<>>, <<StoredPath(1, Debug, 9)>>},
     nodes : {<<>>, <<StoredNode>>},
     edges : {<<>>, <<StoredEdge>>},
     intents : {<<>>, <<StoredIntent>>},
     lastMaintenance : LastMaintenances,
     version : Versions]

\* saveHeatMap, its writes succeeding
SaveHeatMap(heatMap) ==
    /\ query = NoQuery
    /\ disk' = JsonFile(heatMap)
    /\ query' = [op |-> "saveHeatMap", heatMap |-> heatMap]
    /\ UNCHANGED <<currentSession, heap, sessionDocs, calls, nextId, started, discarded,
                   failures, outcome, ended, overlap, stepped, appended, upserts, script,
                   planIn, planOut, answer>>

\* loadHeatMap of the document just saved
LoadSavedHeatMap(now) ==
    /\ query.op = "saveHeatMap"
    /\ query' = [query EXCEPT !.op = "loadHeatMap"]
    /\ answer' = [op |-> "loadHeatMap", heatMap |-> LoadHeatMapAt(disk, now)]
    /\ UNCHANGED <<currentSession, heap, sessionDocs, disk, calls, nextId, started, discarded,
                   failures, outcome, ended, overlap, stepped, appended, upserts, script,
                   planIn, planOut>>

----------------------------------------------------------------------------
(* Specifications *)

Init ==
    /\ currentSession = NoSession
    /\ heap = <<>>
    /\ sessionDocs = <<>>
    /\ disk = MissingFile
    /\ calls = [c \in Calls |-> IdleCall]
    /\ nextId = 1
    /\ started = 0
    /\ failures = 0
    /\ outcome = NoOutcome
    /\ ended = {}
    /\ discarded = {}
    /\ overlap = 0
    /\ stepped = {}
    /\ appended = 0
    /\ upserts = <<>>
    /\ script = EmptyScript
    /\ planIn = NoPlanIn
    /\ planOut = NoPlanOut
    /\ query = NoQuery
    /\ answer = NoAnswer

Step(c) ==
    \/ \E intent \in Intents : StartTracking(c, intent)
    \/ \E resourcePath \in Resources, type \in Types : RecordStep(c, resourcePath, type)
    \/ \E success \in Successes : EndTracking(c, success)
    \/ SaveSession(c)
    \/ LoadHeatMapDone(c)
    \/ SaveHeatMapWrite(c)
    \/ SaveHeatMapDone(c)

\* tool calls arrive while earlier ones are still awaiting their files
Next == \E c \in Calls : Step(c)

Spec == Init /\ [][Next]_vars

\* each call is made after the one before it has ended
NextSeq == Step(1)

SpecSeq == Init /\ [][NextSeq]_vars

\* appendPath called again and again on an empty store
SpecAppend == Init /\ [][AppendPath]_vars

Increments == {1, 4, 15}

\* upsertNode called again and again on an empty store
NextUpsert == \E nodePath \in Resources, increment \in Increments :
                  UpsertNode(nodePath, increment)

SpecUpsert == Init /\ [][NextUpsert]_vars

InitPlan ==
    /\ currentSession = NoSession
    /\ heap = <<>>
    /\ sessionDocs = <<>>
    /\ disk = MissingFile
    /\ calls = [c \in Calls |-> IdleCall]
    /\ nextId = 1
    /\ started = 0
    /\ failures = 0
    /\ outcome = NoOutcome
    /\ ended = {}
    /\ discarded = {}
    /\ overlap = 0
    /\ stepped = {}
    /\ appended = 0
    /\ upserts = <<>>
    /\ script = EmptyScript
    /\ planIn \in [ranked : RankedLists, maxTokens : Budgets]
    /\ planOut = NoPlanOut
    /\ query = NoQuery
    /\ answer = NoAnswer

\* the planner on every ranked list and budget
SpecPlan == InitPlan /\ [][Plan]_vars

\* analyze_intent on the README's example and on every text of the model
NextIntent ==
    query = NoQuery /\ \E input \in Texts \cup {ReadmeInput} : HandleAnalyzeIntent(input)

SpecIntent == Init /\ [][NextIntent]_vars

InitRank ==
    /\ currentSession = NoSession
    /\ heap = <<>>
    /\ sessionDocs = <<>>
    /\ disk \in {JsonFile([EmptyHeatMap EXCEPT !.paths = paths]) : paths \in StoredPathLists}
    /\ calls = [c \in Calls |-> IdleCall]
    /\ nextId = 1
    /\ started = 0
    /\ failures = 0
    /\ outcome = NoOutcome
    /\ ended = {}
    /\ discarded = {}
    /\ overlap = 0
    /\ stepped = {}
    /\ appended = 0
    /\ upserts = <<>>
    /\ script = EmptyScript
    /\ planIn = NoPlanIn
    /\ planOut = NoPlanOut
    /\ query = NoQuery
    /\ answer = NoAnswer

NextRank ==
    query = NoQuery /\ \E intent \in Requests : HandleEvolveContext(intent, DefaultMaxTokens)

\* evolve_context on every stored path list and request of the model
SpecRank == InitRank /\ [][NextRank]_vars

NextRoundTrip ==
    \/ \E heatMap \in HeatMaps : SaveHeatMap(heatMap)
    \/ \E now \in Clock : LoadSavedHeatMap(now)

SpecRoundTrip == Init /\ [][NextRoundTrip]_vars

\* calls of the adapter alone, one after another
NextAdapter ==
    \/ \E action \in Actions, notePath \in NotePaths : TrackBrainNoteAccess(1, action, notePath)
    \/ TrackStarted(1)
    \/ SaveSession(1)
    \/ LoadHeatMapDone(1)
    \/ SaveHeatMapWrite(1)
    \/ SaveHeatMapDone(1)

SpecAdapter == Init /\ [][NextAdapter]_vars

HeatLimits == {0, 1, 2}

\* get_heat_map called between the tracker's calls, no write failing
NextHeat ==
    \/ Step(1) /\ failures' = 0
    \/ Quiescent /\ \E limit \in HeatLimits : HandleGetHeatMap(limit)

SpecHeat == Init /\ [][NextHeat]_vars

\* the read-only tools, called between the tracker's calls while every write
\* to storage succeeds
NextRead ==
    \/ Step(1) /\ failures' = 0
    \/ Quiescent /\ \E input \in Intents : HandleAnalyzeIntent(input)
    \/ Quiescent /\ \E limit \in Limits : HandleGetHeatMap(limit)
    \/ Quiescent /\ \E intent \in Intents : HandleEvolveContext(intent, DefaultMaxTokens)

SpecRead == Init /\ [][NextRead]_vars

\* tool calls made one after another through the dispatcher: the tracker's,
\* whose writes may fail, the synchronisation, a tool that does not exist, and
\* two of the read-only tools
NextTools ==
    \/ Step(1)
    \/ Quiescent /\ \E input \in Intents : HandleAnalyzeIntent(input)
    \/ Quiescent /\ \E limit \in Limits : HandleGetHeatMap(limit)
    \/ Quiescent /\ \E direction \in Directions : HandleSyncWithBrain(direction)
    \/ Quiescent /\ \E name \in UnknownTools : HandleUnknownTool(name)

SpecTools == Init /\ [][NextTools]_vars

----------------------------------------------------------------------------
(* Properties *)

StoredHeatMap == LoadHeatMap(disk)

\* a recordStep or endTracking call is made in this step
Called(op) ==
    \/ \E c \in Calls : ~InFlight(c) /\ calls'[c].pc /= "idle" /\ calls'[c].op = op
    \/ calls' = calls /\ outcome'.op = op

\* C1: in the Idle state recordStep and endTracking fail with the 'no active
\* session' error, and the call leaves the tracker Idle and the session
\* objects, the session documents and the heat-map document as they were.
C1_IdleCallsFail ==
    [][(currentSession = NoSession /\ (Called("recordStep") \/ Called("endTracking")))
        => /\ outcome'.err = NoSessionError
           /\ calls' = calls
           /\ currentSession' = NoSession
           /\ heap' = heap
           /\ sessionDocs' = sessionDocs
           /\ disk' = disk]_vars

C1_Witness ==
    /\ outcome.op = "recordStep"
    /\ outcome.err = NoSessionError
    /\ currentSession = NoSession
    /\ Len(StoredHeatMap.nodes) > 0
    /\ Len(StoredHeatMap.paths) > 0

\* C2: when an endTracking call has ended, returned or failed, the tracker is
\* Idle.
C2_EndTrackingAlwaysIdle ==
    outcome.op = "endTracking" => currentSession = NoSession

\* C3: in a run of non-overlapping calls, an endTracking that returns has
\* appended one record as the last stored path, holding the steps recorded
\* since startTracking in call order, its intent, the success given, heat 1.0
\* and accessCount 1; it returns the number of steps and the session's id.
C3_SequentialRunRecorded ==
    (outcome.op = "endTracking" /\ outcome.err = "none") =>
        /\ disk.state = "json"
        /\ LET stored == disk.content.paths
               n == Len(stored) IN
           /\ n = Len(script.paths) + 1
           /\ SubSeq(stored, 1, n - 1) = script.paths
           /\ stored[n].sequence = script.steps
           /\ stored[n].intent = script.intent
           /\ stored[n].success = outcome.success
           /\ stored[n].heat = HeatOne
           /\ stored[n].accessCount = 1
           /\ stored[n].sessionId = outcome.sessionId
           /\ outcome.pathLength = Len(script.steps)
           /\ script.sessionId /= NoSession => outcome.sessionId = script.sessionId

C3_Witness ==
    /\ outcome.op = "endTracking"
    /\ outcome.err = "none"
    /\ script.sessionId /= NoSession
    /\ Len(script.steps) = 2
    /\ script.steps[1] /= script.steps[2]
    /\ Len(script.paths) > 0

\* C4: after every upsertNode call the node's heat is at most 1.0, and it is
\* not below the heat the previous call on the same key left.
C4_HeatClampedMonotone ==
    \A i \in 1..Len(upserts) :
        /\ upserts[i].heat <= HeatOne
        /\ \A j \in 1..(i - 1) :
              upserts[j].key = upserts[i].key => upserts[j].heat <= upserts[i].heat

\* C5: after n appendPath calls on an empty store the stored path list holds
\* the min(n, 1000) records appended last, in the order they were appended.
C5_RecentPathsKept ==
    LET stored == StoredHeatMap.paths
        n == Len(stored) IN
    /\ n = Min(appended, PathCapacity)
    /\ \A i \in 1..n : stored[i] = NthPath(appended - n + i)

C5_Witness ==
    /\ appended = PathCapacity + 5
    /\ Len(StoredHeatMap.paths) = PathCapacity
    /\ StoredHeatMap.paths[1].id = 6

\* an update that completed is not in the stored document: the path of a
\* session endTracking returned for, or the node of a step recordStep returned
\* from
LostUpdate ==
    \/ \E s \in ended :
          \A i \in 1..Len(StoredHeatMap.paths) : StoredHeatMap.paths[i].sessionId /= s
    \/ \E r \in stepped : FindIndex(StoredHeatMap.nodes, r) = 0

\* C6: a completed update is missing from the document left when no call is
\* in flight only if load-mutate-save cycles overlapped; with overlapping
\* calls such a document is reached (C6_Witness).
C6_LostOnlyByOverlap ==
    (Quiescent /\ LostUpdate) => overlap > 0

C6_Witness ==
    /\ Quiescent
    /\ disk.state = "json"
    /\ \E s \in ended :
          \A i \in 1..Len(StoredHeatMap.paths) : StoredHeatMap.paths[i].sessionId /= s
    /\ \E r \in stepped : FindIndex(StoredHeatMap.nodes, r) = 0

\* C7: a recordStep of a session that endTracking has ended changes neither
\* the heat-map document nor the session's document, and if it ends, it ends
\* with the 'no active session' error.
C7_NoStepAfterEnd ==
    [][\A c \in Calls :
          (calls[c].op = "recordStep" /\ calls[c].ssId \in ended /\ calls'[c] /= calls[c])
          => /\ disk' = disk
             /\ calls[c].ssId \in DOMAIN sessionDocs' =>
                    sessionDocs'[calls[c].ssId] = sessionDocs[calls[c].ssId]
             /\ ~InFlight(c)' => outcome'.err = NoSessionError]_vars

UniqueKeys(entries) ==
    \A i, j \in 1..Len(entries) : entries[i].key = entries[j].key => i = j

\* C8: the stored heat map never has two nodes with one resource identifier
\* nor two edges with one edge key.
C8_KeysUnique ==
    UniqueKeys(StoredHeatMap.nodes) /\ UniqueKeys(StoredHeatMap.edges)

C8_Witness ==
    /\ overlap > 0
    /\ \E i \in 1..Len(StoredHeatMap.nodes) : StoredHeatMap.nodes[i].accessCount > 1
    /\ Len(StoredHeatMap.nodes) > 1
    /\ Len(StoredHeatMap.edges) > 0
    /\ Len(StoredHeatMap.paths) > 0

\* C9 as stated: the plan's tokens sum to at most maxTokens, whatever
\* maxTokens is.
C9_WithinAnyBudget ==
    planOut.computed => SumTokens(planOut.plan) <= planIn.maxTokens

\* C9: for maxTokens >= 0 the plan's tokens sum to at most maxTokens, each
\* entry's tokens being 500 times the number of steps of its path.
C9_WithinBudget ==
    (planOut.computed /\ planIn.maxTokens >= 0) =>
        /\ SumTokens(planOut.plan) <= planIn.maxTokens
        /\ \A k \in 1..Len(planOut.plan) :
              planOut.plan[k].tokens =
                  500 * Len(planIn.ranked[planOut.ranks[k]].sequence)

C9_Witness ==
    /\ planOut.computed
    /\ planIn.maxTokens > 0
    /\ Len(planOut.plan) = 2
    /\ Len(planIn.ranked) = 3
    /\ SumTokens(planOut.plan) = planIn.maxTokens

\* C10 as stated: the ranks loaded are 1..k for some k.
C10_PlanIsPrefix ==
    planOut.computed => \A k \in 1..Len(planOut.ranks) : planOut.ranks[k] = k

\* the tokens of the paths loaded from the ranks before rank j
LoadedBefore(j) ==
    SumTokens(SubSeq(planOut.plan, 1,
                     Cardinality({m \in 1..Len(planOut.ranks) : planOut.ranks[m] < j})))

\* C10: the ranks loaded are in ranked order, and a rank left out before a
\* loaded one is a path whose cost would have taken the total over maxTokens.
C10_SkipsOnlyOverBudget ==
    planOut.computed =>
        /\ \A k \in 1..(Len(planOut.ranks) - 1) : planOut.ranks[k] < planOut.ranks[k + 1]
        /\ \A k \in 1..Len(planOut.ranks) : \A j \in 1..(planOut.ranks[k] - 1) :
              (\A m \in 1..Len(planOut.ranks) : planOut.ranks[m] /= j) =>
                  LoadedBefore(j) + EstimatedTokens(planIn.ranked[j]) > planIn.maxTokens

C10_Witness ==
    /\ planOut.computed
    /\ planOut.ranks = <<1, 3>>

Analyzed == answer.op = "analyze_intent"

\* C11: analyze_intent on the README's example text returns intent debug,
\* confidence 0.85 and the signals question, problem-solving in that order.
C11_ReadmeExample ==
    (Analyzed /\ query.input = ReadmeInput) =>
        /\ answer.analysis.intent = Debug
        /\ answer.analysis.confidence = 85
        /\ answer.analysis.signals = <<"question", "problem-solving">>

\* the categories in the order in which classify tries them
CategoryOrder == <<Debug, Implementation, Research, Documentation, Planning>>

\* a keyword of the category's pattern stands as a word in the lower-cased text
KeywordOf(category, text) ==
    \E i \in 1..Len(WordRuns(ToLowerCase(text))) :
        WordRuns(ToLowerCase(text))[i] \in DetectKeywords(category)

\* C12: the intent returned is the first category, in the order debug,
\* implementation, research, documentation, planning, with a keyword in the
\* text, general when no category has one, and never anything else.
C12_FirstMatchWins ==
    Analyzed =>
        LET intent == answer.analysis.intent
            hits == {i \in 1..Len(CategoryOrder) : KeywordOf(CategoryOrder[i], query.input)} IN
        /\ intent \in {CategoryOrder[i] : i \in 1..Len(CategoryOrder)} \cup {General}
        /\ hits = {} => intent = General
        /\ \A i \in hits : (\A j \in hits : i <= j) => intent = CategoryOrder[i]

C12_Witness ==
    /\ Analyzed
    /\ answer.analysis.intent = Implementation
    /\ KeywordOf(Planning, query.input)
    /\ KeywordOf(Research, query.input)
    /\ Head(WordRuns(ToLowerCase(query.input))) \in DetectKeywords(Planning)

\* the number of words of the text that are confidence keywords of the
\* category, compared without regard to case
MatchCount(category, text) ==
    Cardinality({i \in 1..Len(WordRuns(text)) :
                    \E k \in ConfidenceKeywords(category) :
                        Canonicalize(k) = Canonicalize(WordRuns(text)[i])})

ConfidenceFormula ==
    LET intent == answer.analysis.intent
        confidence == answer.analysis.confidence IN
    /\ intent = General => confidence = 50
    /\ intent /= General =>
            confidence = Min(50 + 10 * MatchCount(intent, query.input), 95)
    /\ confidence >= 50
    /\ confidence <= 95

HasKelvin(text) == \E i \in 1..Len(text) : text[i] = Kelvin

\* C13 as stated: the confidence is min(0.5 + 0.1 x matchCount, 0.95), 0.5 for
\* general, within [0.5, 0.95], and at least 0.6 for every other category.
C13_ConfidenceAtLeastSixty ==
    Analyzed =>
        /\ ConfidenceFormula
        /\ answer.analysis.intent /= General => answer.analysis.confidence >= 60

\* C13: the confidence is min(0.5 + 0.1 x matchCount, 0.95), 0.5 for general,
\* within [0.5, 0.95], and at least 0.6 for every other category when the
\* text has no Kelvin sign.
C13_ConfidenceOfText ==
    Analyzed =>
        /\ ConfidenceFormula
        /\ (answer.analysis.intent /= General /\ ~HasKelvin(query.input))
                => answer.analysis.confidence >= 60

C13_Witness ==
    /\ Analyzed
    /\ answer.analysis.intent = Debug
    /\ MatchCount(Debug, query.input) > 5
    /\ answer.analysis.confidence = 95

Evolved == answer.op = "evolve_context"

\* the place of the path with this id in the stored path list
StoredIndex(id) == CHOOSE i \in 1..Len(StoredHeatMap.paths) : StoredHeatMap.paths[i].id = id

\* the composite score of a stored path for the request answered
CompositeScore(path) ==
    ScorePath(path, AnalyzeIntent(query.intent), query.intent).relevance

\* C14: the ranked list holds exactly the stored paths with success > 0.5 and
\* score >= 0.3, each once, highest score first, and paths of equal score in
\* the order of the stored path list.
C14_RankedList ==
    Evolved =>
        LET ranked == answer.relevantPaths
            stored == StoredHeatMap.paths IN
        /\ \A k \in 1..Len(ranked) :
              /\ ranked[k].success > 5
              /\ ranked[k].relevance >= 3 * ScoreUnit
              /\ \E i \in 1..Len(stored) :
                    /\ stored[i].id = ranked[k].id
                    /\ ranked[k].relevance = CompositeScore(stored[i])
        /\ \A i \in 1..Len(stored) :
              (stored[i].success > 5 /\ CompositeScore(stored[i]) >= 3 * ScoreUnit)
                  => Cardinality({k \in 1..Len(ranked) : ranked[k].id = stored[i].id}) = 1
        /\ \A k \in 1..(Len(ranked) - 1) :
              /\ ranked[k].relevance >= ranked[k + 1].relevance
              /\ ranked[k].relevance = ranked[k + 1].relevance
                    => StoredIndex(ranked[k].id) < StoredIndex(ranked[k + 1].id)

C14_Witness ==
    /\ Evolved
    /\ Len(StoredHeatMap.paths) = 3
    /\ Len(answer.relevantPaths) = 2
    /\ answer.relevantPaths[1].id = 3
    /\ answer.relevantPaths[1].relevance > answer.relevantPaths[2].relevance
    /\ StoredHeatMap.paths[2].success <= 5
    /\ CompositeScore(StoredHeatMap.paths[2]) >= 3 * ScoreUnit

\* paths of equal score are returned in stored order
C14_TieWitness ==
    /\ Evolved
    /\ Len(answer.relevantPaths) = 2
    /\ answer.relevantPaths[1].relevance = answer.relevantPaths[2].relevance
    /\ answer.relevantPaths[1].intent /= answer.relevantPaths[2].intent

\* C15: a stored path with success > 0.5 whose intent string is the intent
\* of the analysis has a score of at least 1.0, carries the exact-match
\* reason and is in the ranked list, whatever the request's text is.
C15_ExactMatchRanked ==
    Evolved =>
        \A i \in 1..Len(StoredHeatMap.paths) :
            LET path == StoredHeatMap.paths[i] IN
            (path.success > 5 /\ path.intent = answer.intent) =>
                \E k \in 1..Len(answer.relevantPaths) :
                    LET r == answer.relevantPaths[k] IN
                    /\ r.id = path.id
                    /\ r.relevance >= 10 * ScoreUnit
                    /\ \E n \in 1..Len(r.matchReasons) :
                          r.matchReasons[n] = "exact_intent_match"

C15_Witness ==
    /\ Evolved
    /\ \E i \in 1..Len(StoredHeatMap.paths) :
          /\ StoredHeatMap.paths[i].success > 5
          /\ StoredHeatMap.paths[i].intent = answer.intent
          /\ Similarity(query.intent, StoredHeatMap.paths[i].intent).num = 0
    /\ \E i \in 1..Len(StoredHeatMap.paths) :
          /\ StoredHeatMap.paths[i].success <= 5
          /\ StoredHeatMap.paths[i].intent = answer.intent

\* a heat map that holds the change of this mutation cycle and nothing else
OwnChangeOnly(call, hm) ==
    /\ hm.intents = <<>>
    /\ hm.lastMaintenance = Now
    /\ hm.version = "1.0.0"
    /\ call.kind = "node" =>
          /\ hm.nodes = <<[key |-> call.path, heat |-> 1, accessCount |-> 1]>>
          /\ hm.edges = <<>> /\ hm.paths = <<>>
    /\ call.kind = "edge" =>
          /\ Len(hm.edges) = 1
          /\ hm.edges[1].from = call.from /\ hm.edges[1].to = call.path
          /\ hm.edges[1].heat = 1 /\ hm.edges[1].traversalCount = 1
          /\ hm.nodes = <<>> /\ hm.paths = <<>>
    /\ call.kind = "path" =>
          /\ Len(hm.paths) = 1
          /\ hm.paths[1].id = call.pathData.id
          /\ hm.nodes = <<>> /\ hm.edges = <<>>

\* C16: loadHeatMap never fails: from a document that is missing or cannot be
\* parsed it returns the empty heat map with version '1.0.0' and the call
\* goes on; the mutation that follows holds only its own change, and that
\* is the document it saves.
C16_LoadNeverFails ==
    [][\A c \in Calls :
          /\ (calls[c].pc = "hm_read" /\ calls'[c] /= calls[c]) =>
                /\ calls'[c].pc = "hm_mkdir"
                /\ disk.state /= "json" =>
                      calls'[c].hm = [paths |-> <<>>, nodes |-> <<>>, edges |-> <<>>,
                                      intents |-> <<>>, lastMaintenance |-> Now,
                                      version |-> "1.0.0"]
          /\ (calls[c].pc = "hm_mkdir" /\ calls'[c].pc = "hm_write"
                  /\ calls[c].hm.paths = <<>> /\ calls[c].hm.nodes = <<>>
                  /\ calls[c].hm.edges = <<>>) =>
                OwnChangeOnly(calls[c], calls'[c].hm)
          /\ (calls[c].pc = "hm_write" /\ calls'[c] /= calls[c] /\ disk'.state = "json") =>
                disk'.content = calls[c].hm]_vars

\* The edge cycle of a recordStep follows the node cycle of the same call,
\* which wrote the document; it loaded the empty heat map, so the document
\* could not be parsed when it was read.
C16_Witness ==
    \E c \in Calls :
        /\ calls[c].kind = "edge"
        /\ calls[c].pc = "hm_write"
        /\ OwnChangeOnly(calls[c], calls[c].hm)

\* C17: a heat map saved and then loaded is the heat map that was saved.
C17_RoundTrip ==
    answer.op = "loadHeatMap" => answer.heatMap = query.heatMap

\* C18: startTracking is accepted from Idle and from Active; while it runs
\* and when it ends the current session is the one it made, with no step and
\* no interaction, and it fails only when the session file cannot be
\* written.  A session it replaced is never stored as a path, and an edge is
\* only made from the step before in the steps recorded since the last
\* startTracking, so the first recordStep of the new session makes none.
C18_StartTrackingReplaces ==
    /\ \A c \in Calls :
          (calls[c].op = "startTracking" /\ InFlight(c)) =>
              /\ currentSession = calls[c].ssId
              /\ currentSession \notin discarded \cup ended
              /\ heap[currentSession].paths = <<>>
              /\ heap[currentSession].interactions = <<>>
    /\ outcome.op = "startTracking" =>
          /\ outcome.err \in {"none", StorageError}
          /\ currentSession /= NoSession
          /\ currentSession \notin discarded \cup ended
          /\ heap[currentSession].paths = <<>>
          /\ heap[currentSession].interactions = <<>>
          /\ outcome.err = "none" => outcome.sessionId = currentSession
    /\ \A i \in 1..Len(StoredHeatMap.paths) :
          StoredHeatMap.paths[i].sessionId \notin discarded
    /\ \A c \in Calls :
          calls[c].kind = "edge" =>
              /\ Len(script.steps) > 1
              /\ calls[c].from = script.steps[Len(script.steps) - 1]
              /\ calls[c].path = script.steps[Len(script.steps)]

\* a session with a step was replaced, and the session made in its place was
\* given a step of its own and ended: its path is stored, alone
C18_Witness ==
    /\ discarded /= {}
    /\ outcome.op = "endTracking"
    /\ outcome.err = "none"
    /\ outcome.pathLength = 1
    /\ StoredHeatMap.edges = <<>>
    /\ Len(StoredHeatMap.paths) = 1
    /\ Len(StoredHeatMap.nodes) = 2

\* the engine operations of the read-only tools
ReadOps == {"analyzeIntent", "getHeatMap", "evolveContext"}

\* C19: evolve_context, analyze_intent and get_heat_map, called in Idle or in
\* Active, leave the current session (its id, intent, paths, interactions),
\* the session documents and the stored heat-map document unchanged, and
\* evolve_context answers the same request from the same stored document with
\* the same plan whether or not a session is active.
C19_ReadOnlyTools ==
    [][outcome'.op \in ReadOps
        => /\ currentSession' = currentSession
           /\ heap' = heap
           /\ sessionDocs' = sessionDocs
           /\ disk' = disk
           /\ (/\ query.op = "evolve_context"
               /\ query'.op = "evolve_context"
               /\ query'.intent = query.intent
               /\ query'.maxTokens = query.maxTokens
               /\ query'.stored = query.stored)
                 => answer' = answer]_vars

\* evolve_context was answered while a session with a step was active, from a
\* document that holds a path, and the plan is not empty
C19_Witness ==
    /\ outcome.op = "evolveContext"
    /\ query.op = "evolve_context"
    /\ query.active
    /\ currentSession /= NoSession
    /\ heap[currentSession].paths /= <<>>
    /\ query.stored = disk
    /\ answer.loadedPaths /= <<>>

\* the directions BrainSync.sync knows
KnownDirections == {"brain-to-mercury", "mercury-to-brain", "bidirectional"}

\* what the caller of the tool call that ends in this step is given
Response == Dispatch(outcome)

\* C20: every tool call that ends is answered with a normal response, never
\* with a protocol fault; a call that fails, because recordStep or endTracking
\* is called with no session, because a write to storage fails, because the
\* sync direction is unknown or because the tool is unknown, is answered with
\* the text 'Error: ' followed by the message of the failure, and never with
\* the success text of an operation.
C20_FailuresBecomeErrorText ==
    [][/\ failures' > failures
            => outcome'.op /= "none" /\ Response'.text = <<"Error: ", StorageError>>
       /\ outcome'.op /= "none"
            => /\ Response'.kind = "result"
               /\ (/\ currentSession = NoSession
                   /\ Called("recordStep") \/ Called("endTracking"))
                     => Response'.text = <<"Error: ", NoSessionError>>
               /\ (/\ outcome'.op = "sync"
                   /\ query'.direction \notin KnownDirections \cup {""})
                     => Response'.text = <<"Error: ", UnknownDirectionError>>
               /\ outcome'.op \in UnknownTools
                     => Response'.text = <<"Error: ", UnknownToolError>>
               /\ outcome'.err /= "none"
                     => \A i \in 1..Len(Response'.text) :
                            Response'.text[i] \notin SuccessHeads]_vars

\* after a call that failed on a write to storage, a synchronisation in an
\* unknown direction is answered with the error text
C20_Witness ==
    /\ failures > 0
    /\ outcome.op = "sync"
    /\ query.direction = "sideways"
    /\ Response = [kind |-> "result", text |-> <<"Error: ", UnknownDirectionError>>]

\* a call that failed on a write to storage is answered with the error text
C20_StorageWitness ==
    /\ outcome.op = "endTracking"
    /\ Response = [kind |-> "result", text |-> <<"Error: ", StorageError>>]

\* C21: when a recordStep call has failed on a write to storage, the session's
\* path and interaction lists and the stored nodes, edges and paths are as they
\* were when the call began.
C21_FailedStepHasNoEffect ==
    (outcome.op = "recordStep" /\ outcome.err = StorageError /\ currentSession /= NoSession)
        => /\ heap[currentSession].paths = script.lists.paths
           /\ heap[currentSession].interactions = script.lists.interactions
           /\ StoredHeatMap.nodes = script.nodes
           /\ StoredHeatMap.edges = script.edges
           /\ StoredHeatMap.paths = script.paths

\* no two stored paths are of the same session
OnePathPerSession ==
    \A i, j \in 1..Len(StoredHeatMap.paths) :
        i /= j => StoredHeatMap.paths[i].sessionId /= StoredHeatMap.paths[j].sessionId

\* an endTracking call that returns is the first to return for its session
FirstToReturn ==
    \A c \in Calls :
        (/\ calls[c].op = "endTracking"
         /\ InFlight(c)
         /\ ~InFlight(c)'
         /\ outcome'.err = "none")
            => calls[c].pathData.sessionId \notin ended

\* C22: in every interleaving of calls the stored path list never holds two
\* records of the same session, and at most one endTracking call returns a
\* result for a session.
C22_AtMostOnePathPerSession == []OnePathPerSession /\ [][FirstToReturn]_vars

\* the stored entry with key k counts n and has the heat of n increments,
\* and there is none when n is 0
CountsAs(entries, k, n, count(_)) ==
    LET i == FindIndex(entries, k) IN
    IF n = 0 THEN i = 0
    ELSE /\ i > 0
         /\ count(entries[i]) = n
         /\ entries[i].heat = Min(HeatOne, DefaultIncrement * n)

\* C23: in a run of calls made one after another from an empty store, when no
\* call is in flight each stored node has as accessCount the number of
\* recordStep calls with its path that returned and each stored edge has as
\* traversalCount the number of times its target was recorded right after its
\* source in one session, both with heat min(1.0, 0.1 * count); a path or a
\* pair never so recorded has no node or edge, so no edge joins two sessions.
C23_HeatMatchesCounts ==
    Quiescent
        => /\ \A r \in Resources :
                 CountsAs(StoredHeatMap.nodes, r, script.nodeCount[r],
                          LAMBDA node : node.accessCount)
           /\ \A e \in Resources \X Resources :
                 CountsAs(StoredHeatMap.edges, e, script.edgeCount[e],
                          LAMBDA edge : edge.traversalCount)

\* rank j is in the plan
Loaded(j) == \E m \in 1..Len(planOut.ranks) : planOut.ranks[m] = j

\* the planner gets to rank j: after none of the ranks before it had the
\* tokens loaded so far reached 0.8 * maxTokens
Examined(j) ==
    \A i \in 1..(j - 1) : LoadedBefore(i + 1) * 10 < planIn.maxTokens * BreakTenths

\* C24: the planner goes through the ranked paths in order until, after a
\* path, included or not, the tokens loaded so far are at least
\* 0.8 * maxTokens; a path it gets to is in the plan exactly when its tokens
\* fit in what is left of maxTokens; the plan is in ranked order, and each
\* entry has the first step of its path's sequence as path and the path's
\* relevance as gradient.
C24_PlannerStopsAtEightTenths ==
    planOut.computed =>
        /\ \A j \in 1..Len(planIn.ranked) :
              Loaded(j) <=>
                  /\ Examined(j)
                  /\ LoadedBefore(j) + EstimatedTokens(planIn.ranked[j]) <= planIn.maxTokens
        /\ Len(planOut.plan) = Len(planOut.ranks)
        /\ \A k \in 1..Len(planOut.ranks) :
              /\ planOut.ranks[k] \in 1..Len(planIn.ranked)
              /\ k > 1 => planOut.ranks[k - 1] < planOut.ranks[k]
              /\ planOut.plan[k].gradient = planIn.ranked[planOut.ranks[k]].relevance
              /\ Len(planIn.ranked[planOut.ranks[k]].sequence) > 0
                    => planOut.plan[k].path = planIn.ranked[planOut.ranks[k]].sequence[1]

\* the first path is over the budget and is passed over, the second fills
\* the budget, and the third, which would still fit, is not looked at
C24_Witness ==
    /\ planOut.computed
    /\ planOut.ranks = <<2>>
    /\ Len(planIn.ranked) = 3
    /\ planIn.ranked[3].sequence = <<>>
    /\ SumTokens(planOut.plan) = planIn.maxTokens

\* the places in the category order of the categories other than the primary
\* one with at least two keyword occurrences in the text
Qualifying ==
    {i \in 1..Len(CategoryOrder) :
        /\ CategoryOrder[i] /= answer.analysis.intent
        /\ MatchCount(CategoryOrder[i], query.input) >= 2}

\* C25: the alternatives are at most two, none is the primary category or
\* general, each has at least two keyword occurrences in the text, that is a
\* confidence above 0.6, and they are the first two qualifying categories in
\* the order debug, implementation, research, documentation, planning, or
\* all of them when fewer than two qualify.
C25_FirstTwoAlternatives ==
    Analyzed =>
        LET alternatives == answer.analysis.alternatives
            place(k) == CHOOSE i \in 1..Len(CategoryOrder) :
                            CategoryOrder[i] = alternatives[k] IN
        /\ Len(alternatives) = Min(2, Cardinality(Qualifying))
        /\ \A k \in 1..Len(alternatives) :
              /\ alternatives[k] /= answer.analysis.intent
              /\ alternatives[k] /= General
              /\ CalculateConfidence(query.input, alternatives[k]) > 60
              /\ place(k) \in Qualifying
              /\ Cardinality({i \in Qualifying : i < place(k)}) = k - 1

\* three categories qualify and the last of them is left out
C25_Witness ==
    /\ Analyzed
    /\ answer.analysis.intent = Implementation
    /\ answer.analysis.alternatives = <<Research, Documentation>>
    /\ MatchCount(Planning, query.input) >= 2

\* the text is general and has an alternative
C25_GeneralWitness ==
    /\ Analyzed
    /\ answer.analysis.intent = General
    /\ answer.analysis.alternatives = <<Research>>

----------------------------------------------------------------------------
(* The note-access adapter *)

\* the interaction type the adapter records for an action
NoteInteraction ==
    [create |-> "create", read |-> "note", update |-> "note", delete |-> "note",
     list |-> "search"]

\* cleaned is notePath with one leading "/" removed
OneSlashRemoved(notePath, cleaned) ==
    IF Len(notePath) > 0 /\ Head(notePath) = "/" THEN notePath = "/" \o cleaned
    ELSE cleaned = notePath

\* C26: a trackBrainNoteAccess call starts a session with the intent
\* 'brain-navigation' only when there is none and keeps the current one
\* otherwise; when it has returned there is a session whose last step is the
\* note's path with one leading '/' removed and the interaction type of the
\* action; calls of the adapter alone never leave the tracker without a
\* session once it has one and never add a stored path.
C26_AdapterKeepsSessionActive ==
    [][/\ (calls[1].pc = "idle" /\ calls'[1].op = "trackBrainNoteAccess")
            => IF currentSession = NoSession
               THEN /\ currentSession' /= NoSession
                    /\ started' = started + 1
                    /\ heap'[currentSession'].intent = BrainNavigation
               ELSE /\ currentSession' = currentSession
                    /\ started' = started
       /\ calls[1].pc /= "idle" => started' = started
       /\ currentSession /= NoSession => currentSession' = currentSession
       /\ outcome'.op = "trackBrainNoteAccess" => currentSession' /= NoSession
       /\ (outcome'.op = "trackBrainNoteAccess" /\ outcome'.err = "none")
            => LET session == heap'[currentSession']
                   n == Len(session.paths) IN
               /\ n > 0
               /\ n = Len(session.interactions)
               /\ OneSlashRemoved(calls[1].note.notePath, session.paths[n])
               /\ session.interactions[n].path = session.paths[n]
               /\ session.interactions[n].type = NoteInteraction[calls[1].note.action]
       /\ StoredHeatMap'.paths = <<>>
       /\ ended' = {}
       /\ appended' = 0]_vars

\* a list of "//a" has returned as the second step of the session the adapter started
C26_Witness ==
    /\ outcome.op = "trackBrainNoteAccess"
    /\ outcome.err = "none"
    /\ currentSession /= NoSession
    /\ heap[currentSession].intent = BrainNavigation
    /\ heap[currentSession].paths = <<"a", "/a">>
    /\ heap[currentSession].interactions[2] = [type |-> "search", path |-> "/a"]

----------------------------------------------------------------------------
(* A stored path whose intent is the request itself *)

\* C27: evolve_context ranks every stored path with success above 0.5 whose
\* intent is the text of the request, with a score of at least 0.8 and the
\* similarity among its reasons, whatever the text is classified as.
C27_EqualIntentRanked ==
    Evolved =>
        \A i \in 1..Len(StoredHeatMap.paths) :
            LET path == StoredHeatMap.paths[i] IN
            (path.success > 5 /\ path.intent = query.intent) =>
                \E k \in 1..Len(answer.relevantPaths) :
                    LET r == answer.relevantPaths[k] IN
                    /\ r.id = path.id
                    /\ r.relevance >= 8 * ScoreUnit
                    /\ \E n \in 1..Len(r.matchReasons) :
                          r.matchReasons[n] = "text_similarity"

\* the empty request, classified general, with an empty stored intent: the
\* path is ranked with 0.8 for the similarity and 0.6 for the one shared word
C27_Witness ==
    /\ Evolved
    /\ query.intent = <<>>
    /\ answer.intent = General
    /\ \E i \in 1..Len(StoredHeatMap.paths) :
          /\ StoredHeatMap.paths[i].success > 5
          /\ StoredHeatMap.paths[i].intent = <<>>
          /\ \E k \in 1..Len(answer.relevantPaths) :
                /\ answer.relevantPaths[k].id = StoredHeatMap.paths[i].id
                /\ answer.relevantPaths[k].relevance = 14 * ScoreUnit

\* a request classified planning with the same stored intent, and one with
\* the same intent and a success that is not above 0.5, which is left out
C27_CategoryWitness ==
    /\ Evolved
    /\ query.intent = <<"p", "l", "a", "n", " ", "x">>
    /\ answer.intent = Planning
    /\ \E i, j \in 1..Len(StoredHeatMap.paths) :
          /\ StoredHeatMap.paths[i].intent = query.intent
          /\ StoredHeatMap.paths[i].success > 5
          /\ StoredHeatMap.paths[j].intent = query.intent
          /\ StoredHeatMap.paths[j].success <= 5
          /\ Len(answer.relevantPaths) = 1

----------------------------------------------------------------------------
(* The heat map tool *)

\* the answer is a sublist of the stored entries in an order of non-increasing
\* heat, and no entry left out is hotter than one of the answer
TopByHeat(returned, stored, same(_, _)) ==
    /\ \A k \in 1..Len(returned) :
          Cardinality({i \in 1..Len(stored) : same(returned[k], stored[i])}) = 1
    /\ \A k, m \in 1..Len(returned) :
          (k /= m) => \A i \in 1..Len(stored) :
                          ~(same(returned[k], stored[i]) /\ same(returned[m], stored[i]))
    /\ \A k \in 1..(Len(returned) - 1) : returned[k].heat >= returned[k + 1].heat
    /\ \A i \in 1..Len(stored) :
          (\A k \in 1..Len(returned) : ~same(returned[k], stored[i]))
              => \A k \in 1..Len(returned) : stored[i].heat <= returned[k].heat

SameNode(r, node) ==
    r.path = node.key /\ r.heat = node.heat /\ r.accessCount = node.accessCount

SameEdge(r, edge) ==
    /\ r.from = edge.from
    /\ r.to = edge.to
    /\ r.heat = edge.heat
    /\ r.traversalCount = edge.traversalCount

\* what get_heat_map answered is the top of the store for the limit
HeatMapWithin(limit, returned, stored) ==
    /\ Len(returned.hotNodes) <= limit
    /\ 2 * Len(returned.strongEdges) <= limit
    /\ TopByHeat(returned.hotNodes, stored.nodes, SameNode)
    /\ TopByHeat(returned.strongEdges, stored.edges, SameEdge)
    /\ returned.totalPaths = Len(stored.paths)

GotHeatMap == outcome'.op = "getHeatMap"

\* C28: get_heat_map(limit) answers with at most limit nodes and at most
\* floor(limit / 2) edges, each list in non-increasing heat and holding the
\* hottest stored entries, and with the number of stored paths; the stored
\* document is left as it was.
C28_HeatMapWithinLimit ==
    [][GotHeatMap => /\ disk' = disk
                     /\ HeatMapWithin(query'.limit, answer'.heatMap, StoredHeatMap)]_vars

\* the same for a limit of at least 1, with the number of entries returned
HeatMapFromOne ==
    [][(GotHeatMap /\ query'.limit >= 1)
          => /\ disk' = disk
             /\ HeatMapWithin(query'.limit, answer'.heatMap, StoredHeatMap)
             /\ Len(answer'.heatMap.hotNodes) = Min(query'.limit, Len(StoredHeatMap.nodes))
             /\ Len(answer'.heatMap.strongEdges)
                    = Min(query'.limit \div 2, Len(StoredHeatMap.edges))]_vars

\* a limit of 1 on a store of two nodes: the hotter one is returned, stored second
HeatMapWitness ==
    /\ outcome.op = "getHeatMap"
    /\ query.limit = 1
    /\ Len(StoredHeatMap.nodes) = 2
    /\ Len(answer.heatMap.hotNodes) = 1
    /\ SameNode(answer.heatMap.hotNodes[1], StoredHeatMap.nodes[2])
    /\ StoredHeatMap.nodes[2].heat > StoredHeatMap.nodes[1].heat

\* a limit of 2 on a store of two edges: one is returned
HeatMapEdgeWitness ==
    /\ outcome.op = "getHeatMap"
    /\ query.limit = 2
    /\ Len(StoredHeatMap.edges) = 2
    /\ Len(answer.heatMap.strongEdges) = 1

\* a limit of 0 on a store of two nodes: both are returned
HeatMapZeroWitness ==
    /\ outcome.op = "getHeatMap"
    /\ query.limit = 0
    /\ Len(answer.heatMap.hotNodes) = 2

============================================================================
